---------------------------- MODULE Spec2Model ----------------------------
(***************************************************************************)
(* Model of the resume transformation / rendering core of                 *)
(* smart-resume-builder: the Typst escaper, the schema transformers       *)
(* (JSON Resume, RenderCV, flat markdown, Typst source) and the render    *)
(* invocation adapters.                                                   *)
(*                                                                         *)
(* Strings are sequences of one-character strings, so that replace, join  *)
(* and the f-string concatenations of the source are computed, not        *)
(* assumed.  The empty string and the empty list are both << >>, which is *)
(* also the only falsy value of either kind in Python.                    *)
(***************************************************************************)
EXTENDS Integers, Sequences, FiniteSets, TLC

VARIABLES
    text,           \* TypstRenderer._escape_typst: the argument
    escaped,        \* its result
    twice,          \* the result of escaping the result again
    esc_pc,         \* "start" | "escaped" | "twice"
    resume_data,    \* the Resume Record held by the session (a Python dict)
    output,         \* [op, doc]: the last transformer called and what it returned
    calls,          \* number of transformer calls made on resume_data so far
    today,          \* the environment's current date, as %Y-%m-%d
    pc,             \* per render call: where the call is
    call,           \* per render call: [engine, theme, output_format]
    dirs,           \* the directories that exist
    files,          \* the files that exist: [dir, name, content]
    outcome,        \* per render call: how the external renderer step went
    invocations,    \* per render call: runs of the external renderer
    result,         \* per render call: what the caller got
    date_input,     \* the date, duration or graduation string handed to a parser
    parsed,         \* [op, value]: the parser called on date_input and what it returned
    approved_content,   \* st.session_state.approved_content: the reviewed AI-enhanced texts
    enhanced_data,      \* what _create_enhanced_resume_data_structure last returned
    selected_content,   \* st.session_state.selected_content: what match_resume_to_job returned
    tailorings          \* number of "Generate Best Match Resume" runs so far

escVars == <<text, escaped, twice, esc_pc>>
xfVars == <<resume_data, output, calls, today>>

renderVars == <<pc, call, dirs, files, outcome, invocations, result>>
dateVars == <<date_input, parsed>>
tailorVars == <<approved_content, enhanced_data, selected_content, tailorings>>

vars ==
    <<text, escaped, twice, esc_pc, resume_data, output, calls, today,
      pc, call, dirs, files, outcome, invocations, result, date_input, parsed,
      approved_content, enhanced_data, selected_content, tailorings>>

\* The values a component's variables hold in the specifications of the
\* other components, where it takes no step.
EscIdle == text = << >> /\ escaped = << >> /\ twice = << >> /\ esc_pc = "idle"
XfIdle == resume_data = << >> /\ output = [op |-> "none"] /\ calls = 0 /\ today = << >>
TailorIdle ==
    approved_content = << >> /\ enhanced_data = << >> /\ selected_content = << >> /\ tailorings = 0
DateIdle == date_input = << >> /\ parsed = [op |-> "none"]
RenderIdle ==
    /\ pc = << >> /\ call = << >> /\ dirs = {} /\ files = {}
    /\ outcome = << >> /\ invocations = << >> /\ result = << >>

-----------------------------------------------------------------------------
(* Characters and strings *)

BS == "\\"
DQ == "\""

\* Longest argument handed to the escaper.
MaxTextLen == 4

\* The characters the escaper is exercised on: its two special characters
\* and an ordinary one.
EscChars == {BS, DQ, "a"}

RECURSIVE StringsUpTo(_, _)
StringsUpTo(chars, n) ==
    IF n = 0 THEN {<< >>}
    ELSE LET shorter == StringsUpTo(chars, n - 1)
         IN  shorter \cup {Append(s, c) : s \in {t \in shorter : Len(t) = n - 1}, c \in chars}

\* str.replace(old, new) for a one-character old.
RECURSIVE Replace(_, _, _)
Replace(s, old, new) ==
    IF s = << >> THEN << >>
    ELSE (IF Head(s) = old THEN new ELSE <<Head(s)>>) \o Replace(Tail(s), old, new)

\* An escaper that leaves a string holding a backslash as it is.
_escape_typst_unless_escaped(t) ==
    IF t = << >> \/ (\E i \in 1..Len(t) : t[i] = BS) THEN t
    ELSE Replace(Replace(t, DQ, <<BS, DQ>>), BS, <<BS, BS>>)

\* TypstRenderer._escape_typst
_escape_typst(t) ==
    IF t = << >> THEN << >>
    ELSE LET quoted == Replace(t, DQ, <<BS, DQ>>)
         IN  Replace(quoted, BS, <<BS, BS>>)

-----------------------------------------------------------------------------
(* Python helpers: dict access, truthiness, str methods *)

\* dict.get(k, default)
Get(d, k, default) == IF k \in DOMAIN d THEN d[k] ELSE default

\* bool(x) for a str or a list
Truthy(x) == x # << >>

\* a or b, for strs
Or(a, b) == IF Truthy(a) THEN a ELSE b

\* sep.join(parts)
RECURSIVE Join(_, _)
Join(parts, sep) ==
    IF parts = << >> THEN << >>
    ELSE IF Len(parts) = 1 THEN parts[1]
    ELSE parts[1] \o sep \o Join(Tail(parts), sep)

StartsWith(s, p) == Len(s) >= Len(p) /\ SubSeq(s, 1, Len(p)) = p

\* s.split(sep)
RECURSIVE SplitAcc(_, _, _)
SplitAcc(s, sep, cur) ==
    IF s = << >> THEN <<cur>>
    ELSE IF StartsWith(s, sep)
         THEN <<cur>> \o SplitAcc(SubSeq(s, Len(sep) + 1, Len(s)), sep, << >>)
         ELSE SplitAcc(Tail(s), sep, Append(cur, Head(s)))

Split(s, sep) == SplitAcc(s, sep, << >>)

Whitespace == {" ", "\n", "\t"}

\* s.lstrip(chars), s.rstrip(chars), s.strip(chars)
RECURSIVE LStripChars(_, _)
LStripChars(s, chars) ==
    IF s # << >> /\ Head(s) \in chars THEN LStripChars(Tail(s), chars) ELSE s

RECURSIVE RStripChars(_, _)
RStripChars(s, chars) ==
    IF s # << >> /\ s[Len(s)] \in chars
    THEN RStripChars(SubSeq(s, 1, Len(s) - 1), chars)
    ELSE s

StripChars(s, chars) == RStripChars(LStripChars(s, chars), chars)

\* s.strip()
Strip(s) == StripChars(s, Whitespace)

\* s.split(): the maximal runs of non-whitespace characters
RECURSIVE SplitWSAcc(_, _)
SplitWSAcc(s, cur) ==
    IF s = << >> THEN (IF cur = << >> THEN << >> ELSE <<cur>>)
    ELSE IF Head(s) \in Whitespace
         THEN (IF cur = << >> THEN << >> ELSE <<cur>>) \o SplitWSAcc(Tail(s), << >>)
         ELSE SplitWSAcc(Tail(s), Append(cur, Head(s)))

SplitWS(s) == SplitWSAcc(s, << >>)

\* sub in s, for a non-empty sub
Contains(s, sub) == \E i \in 1..Len(s) : StartsWith(SubSeq(s, i, Len(s)), sub)

Digits == {"0", "1", "2", "3", "4", "5", "6", "7", "8", "9"}

\* s.isdigit()
IsDigit(s) == s # << >> /\ \A i \in 1..Len(s) : s[i] \in Digits

DigitVal ==
    ("0" :> 0) @@ ("1" :> 1) @@ ("2" :> 2) @@ ("3" :> 3) @@ ("4" :> 4) @@
    ("5" :> 5) @@ ("6" :> 6) @@ ("7" :> 7) @@ ("8" :> 8) @@ ("9" :> 9)

DigitChar == <<"0", "1", "2", "3", "4", "5", "6", "7", "8", "9">>

\* int(s), for s.isdigit()
RECURSIVE IntOf(_)
IntOf(s) == IF s = << >> THEN 0 ELSE 10 * IntOf(SubSeq(s, 1, Len(s) - 1)) + DigitVal[s[Len(s)]]

\* str(n)
RECURSIVE StrOfNat(_)
StrOfNat(n) == IF n < 10 THEN <<DigitChar[n + 1]>> ELSE Append(StrOfNat(n \div 10), DigitChar[(n % 10) + 1])

StrOf(n) == IF n < 0 THEN <<"-">> \o StrOfNat(0 - n) ELSE StrOfNat(n)

LowerOf ==
    ("A" :> "a") @@ ("B" :> "b") @@ ("C" :> "c") @@ ("D" :> "d") @@ ("E" :> "e") @@
    ("F" :> "f") @@ ("G" :> "g") @@ ("H" :> "h") @@ ("I" :> "i") @@ ("J" :> "j") @@
    ("K" :> "k") @@ ("L" :> "l") @@ ("M" :> "m") @@ ("N" :> "n") @@ ("O" :> "o") @@
    ("P" :> "p") @@ ("Q" :> "q") @@ ("R" :> "r") @@ ("S" :> "s") @@ ("T" :> "t") @@
    ("U" :> "u") @@ ("V" :> "v") @@ ("W" :> "w") @@ ("X" :> "x") @@ ("Y" :> "y") @@
    ("Z" :> "z")

UpperOf ==
    ("a" :> "A") @@ ("b" :> "B") @@ ("c" :> "C") @@ ("d" :> "D") @@ ("e" :> "E") @@
    ("f" :> "F") @@ ("g" :> "G") @@ ("h" :> "H") @@ ("i" :> "I") @@ ("j" :> "J") @@
    ("k" :> "K") @@ ("l" :> "L") @@ ("m" :> "M") @@ ("n" :> "N") @@ ("o" :> "O") @@
    ("p" :> "P") @@ ("q" :> "Q") @@ ("r" :> "R") @@ ("s" :> "S") @@ ("t" :> "T") @@
    ("u" :> "U") @@ ("v" :> "V") @@ ("w" :> "W") @@ ("x" :> "X") @@ ("y" :> "Y") @@
    ("z" :> "Z")

IsLetter(c) == c \in DOMAIN LowerOf \/ c \in DOMAIN UpperOf

LowerChar(c) == IF c \in DOMAIN LowerOf THEN LowerOf[c] ELSE c
UpperChar(c) == IF c \in DOMAIN UpperOf THEN UpperOf[c] ELSE c

\* s.lower()
Lower(s) == [i \in 1..Len(s) |-> LowerChar(s[i])]

\* s.title(): a letter is upper-cased after a non-letter, lower-cased after a letter
Title(s) ==
    [i \in 1..Len(s) |->
        IF i > 1 /\ IsLetter(s[i - 1]) THEN LowerChar(s[i]) ELSE UpperChar(s[i])]

\* [f(x) for x in xs]
MapSeq(F(_), xs) == [i \in 1..Len(xs) |-> F(xs[i])]

\* [x for x in xs if P(x)]
RECURSIVE FilterSeq(_, _)
FilterSeq(P(_), xs) ==
    IF xs = << >> THEN << >>
    ELSE (IF P(Head(xs)) THEN <<Head(xs)>> ELSE << >>) \o FilterSeq(P, Tail(xs))

\* All sequences over a set of length at most n.
RECURSIVE SeqsUpTo(_, _)
SeqsUpTo(S, n) ==
    IF n = 0 THEN {<< >>}
    ELSE LET shorter == SeqsUpTo(S, n - 1)
         IN  shorter \cup {Append(s, x) : s \in {t \in shorter : Len(t) = n - 1}, x \in S}

-----------------------------------------------------------------------------
(* The escaper applied to a string, and to its own output *)

EscInit ==
    /\ text \in StringsUpTo(EscChars, MaxTextLen)
    /\ escaped = << >>
    /\ twice = << >>
    /\ esc_pc = "start"
    /\ XfIdle
    /\ RenderIdle
    /\ DateIdle
    /\ TailorIdle

Escape ==
    /\ esc_pc = "start"
    /\ escaped' = _escape_typst(text)
    /\ esc_pc' = "escaped"
    /\ UNCHANGED <<text, twice>>
    /\ UNCHANGED xfVars
    /\ UNCHANGED renderVars
    /\ UNCHANGED dateVars
    /\ UNCHANGED tailorVars

EscapeAgain ==
    /\ esc_pc = "escaped"
    /\ twice' = _escape_typst(escaped)
    /\ esc_pc' = "twice"
    /\ UNCHANGED <<text, escaped>>
    /\ UNCHANGED xfVars
    /\ UNCHANGED renderVars
    /\ UNCHANGED dateVars
    /\ UNCHANGED tailorVars

EscNext == Escape \/ EscapeAgain

SpecEscape == EscInit /\ [][EscNext]_vars

-----------------------------------------------------------------------------
(* C4 *)

\* The character-by-character map the escaper is documented to compute.
RECURSIVE CharwiseEscape(_)
CharwiseEscape(s) ==
    IF s = << >> THEN << >>
    ELSE (CASE Head(s) = BS -> <<BS, BS>>
            [] Head(s) = DQ -> <<BS, DQ>>
            [] OTHER -> <<Head(s)>>) \o CharwiseEscape(Tail(s))

\* C4: escape(text) is text with every backslash doubled and every double
\* quote preceded by one backslash, all other characters unchanged.
C4_EscapeIsCharwiseMap ==
    esc_pc # "start" => escaped = CharwiseEscape(text)

-----------------------------------------------------------------------------
(* Resume Records: the inputs of the transformers *)

\* An optional dict key: o is {} (key absent) or {v} (key present with value v).
Opt(k, o) == IF o = {} THEN << >> ELSE (k :> (CHOOSE v \in o : TRUE))

\* d[k] = v
SetKey(d, k, v) == (k :> v) @@ d

\* Most entries in the experience, education and projects lists of a record.
MaxEntries == 2

sEngineer == <<"E", "n", "g">>
sAcme == <<"A", "c", "m", "e">>
sDuration == <<"2", "0", "2", "0", " ", "-", " ", "n", "o", "w">>
sR1 == <<"r", "1">>
sR2 == <<"r", "2">>
sA1 == <<"a", "1">>
sA2 == <<"a", "2">>
sA3 == <<"a", "3">>

ExperienceEntry(rs, srs, acc, sacc) ==
    [position |-> sEngineer, company |-> sAcme, duration |-> sDuration,
     location |-> << >>, role_summaries |-> rs, accomplishments |-> acc]
        @@ Opt("selected_role_summary", srs) @@ Opt("selected_accomplishments", sacc)

\* Entries that vary the role summary candidates and override, and entries
\* that vary the accomplishment candidates and override.
ExperienceEntries ==
    {ExperienceEntry(rs, srs, <<sA1, sA2>>, {}) :
        rs \in {<< >>, <<sR1, sR2>>}, srs \in {{}, {<< >>}, {sR2}}}
    \cup
    {ExperienceEntry(<<sR1>>, {}, acc, sacc) :
        acc \in {<< >>, <<sA1, sA2, sA3>>}, sacc \in {{}, {<< >>}, {<<sA3, sA1>>}}}

sMIT == <<"M", "I", "T">>
sBS == <<"B", "S">>
sGraduation == <<"2", "0", "2", "0">>
sHonors == <<"H", "o", "n">>
sGpa == <<"3", ".", "9">>

EducationEntry(inst, deg, hl, gpa) ==
    [institution |-> inst, degree |-> deg, graduation |-> sGraduation]
        @@ Opt("highlights", hl) @@ Opt("gpa", gpa)

\* Entries that vary institution, degree, highlights and gpa, and entries
\* that name their area by the field or area key instead of the degree.
EducationEntries ==
    {EducationEntry(inst, deg, hl, gpa) :
        inst \in {<< >>, sMIT}, deg \in {<< >>, sBS},
        hl \in {{}, {<<sHonors>>}}, gpa \in {{}, {sGpa}}}
    \cup
    {EducationEntry(sMIT, << >>, {}, {}) @@ ("field" :> <<"C", "S">>),
     EducationEntry(sMIT, sBS, {}, {}) @@ ("area" :> <<"E", "E">>),
     EducationEntry(<< >>, << >>, {}, {}) @@ ("field" :> <<"C", "S">>)}

sProj == <<"P", "x">>
sD1 == <<"d", "1">>
sD2 == <<"d", "2">>
sT1 == <<"t", "1">>
sT2 == <<"t", "2">>

ProjectEntry(name, ds, sd, tech) ==
    [name |-> name, url |-> << >>, descriptions |-> ds, technologies |-> tech,
     achievements |-> << >>] @@ Opt("selected_description", sd)

sAch1 == <<"w", "o", "n">>
sAch2 == <<"c", "u", "t">>

\* Entries that vary the name, the descriptions and their override and the
\* technologies, and entries with achievements.
ProjectEntries ==
    {ProjectEntry(name, ds, sd, tech) :
        name \in {<< >>, sProj}, ds \in {<< >>, <<sD1, sD2>>},
        sd \in {{}, {<< >>}, {sD2}}, tech \in {<< >>, <<sT1, sT2>>}}
    \cup
    {[ProjectEntry(sProj, <<sD1>>, {}, tech) EXCEPT !.achievements = <<sAch2, sAch1>>] :
        tech \in {<< >>, <<sT2, sT1>>}}

\* The skills mapping is a dict, which iterates in insertion order: a
\* sequence of [k, v] items with distinct keys.
cTechnical == <<"t", "e", "c", "h", "n", "i", "c", "a", "l">>
cProgramming == <<"p", "r", "o", "g", "r", "a", "m", "m", "i", "n", "g">>
cTools == <<"t", "o", "o", "l", "s">>
cSoftSkills == <<"s", "o", "f", "t", "_", "s", "k", "i", "l", "l", "s">>

Categories == {cTechnical, cProgramming, cTools, cSoftSkills}

sPy == <<"p", "y">>
sGit == <<"g", "i", "t">>

SkillLists == {<< >>, <<sPy>>, <<sGit, sPy>>}

DistinctKeys(items) ==
    \A i, j \in 1..Len(items) : items[i].k = items[j].k => i = j

SkillsInputs ==
    {m \in SeqsUpTo([k : Categories, v : {<<sPy>>}], Cardinality(Categories)) :
        DistinctKeys(m)}
    \cup
    {m \in SeqsUpTo([k : {cTechnical, cTools}, v : SkillLists], 2) : DistinctKeys(m)}

\* dict.get(k, default) and "k in d" on an insertion-ordered dict
ItemsGet(items, key, default) ==
    IF \E i \in 1..Len(items) : items[i].k = key
    THEN items[CHOOSE i \in 1..Len(items) : items[i].k = key].v
    ELSE default

sName == <<"A", "l", " ", "B", "o">>
sMail == <<"a", "@", "b">>
sPhone == <<"5", "5", "5">>
sLinkedin == <<"l", "i">>

\* Contact values, some of which hold the characters Typst strings treat
\* as control characters.
ContactInputs ==
    {[name |-> n, email |-> e, phone |-> ph, linkedin |-> li] :
        n \in {<< >>, sName, <<"A", DQ>>},
        e \in {<< >>, sMail, <<"a", DQ, "b">>},
        ph \in {<< >>, sPhone, <<"5", BS>>},
        li \in {<< >>, sLinkedin, <<DQ, "l">>}}

sS1 == <<"s", "1">>
sS2 == <<"s", "2">>

SummaryInputs ==
    {[sentences |-> ss] @@ Opt("selected_sentences", sel) :
        ss \in {<< >>, <<sS1, sS2>>}, sel \in {{}, {<< >>}, {<<sS2>>}}}

BaseRecord ==
    [contact |-> [name |-> sName, email |-> sMail, phone |-> sPhone, linkedin |-> sLinkedin],
     summary |-> [sentences |-> <<sS1, sS2>>],
     experience |-> << >>,
     projects |-> << >>,
     skills |-> << >>,
     education |-> << >>]

\* The records the transformers are run on: one section of the base record
\* varies at a time (each section is transformed independently of the others).
ResumeRecords ==
    {[BaseRecord EXCEPT !.experience = x] : x \in SeqsUpTo(ExperienceEntries, MaxEntries)}
    \cup {[BaseRecord EXCEPT !.education = x] : x \in SeqsUpTo(EducationEntries, MaxEntries)}
    \cup {[BaseRecord EXCEPT !.projects = x] : x \in SeqsUpTo(ProjectEntries, MaxEntries)}
    \cup {[BaseRecord EXCEPT !.skills = x] : x \in SkillsInputs}
    \cup {[BaseRecord EXCEPT !.contact = x] : x \in ContactInputs}
    \cup {[BaseRecord EXCEPT !.summary = x] : x \in SummaryInputs}

-----------------------------------------------------------------------------
(* JSONResumeTransformer *)

\* JSONResumeTransformer._get_summary_text
_get_summary_text(rd) ==
    LET summary_data == Get(rd, "summary", << >>)
    IN  IF "selected_sentences" \in DOMAIN summary_data
        THEN Join(summary_data["selected_sentences"], <<" ">>)
        ELSE Join(Get(summary_data, "sentences", << >>), <<" ">>)

\* JSONResumeTransformer._transform_basics (profiles left out)
_transform_basics(rd) ==
    LET contact == Get(rd, "contact", << >>)
    IN  [name |-> Get(contact, "name", << >>),
         label |-> << >>,
         email |-> Get(contact, "email", << >>),
         phone |-> Get(contact, "phone", << >>),
         summary |-> _get_summary_text(rd)]

\* JSONResumeTransformer._normalize_date
json_normalize_date(date_str) == IF ~Truthy(date_str) THEN << >> ELSE date_str

\* JSONResumeTransformer._parse_start_date
_parse_start_date(duration_str) ==
    IF ~Truthy(duration_str) THEN << >>
    ELSE json_normalize_date(Strip(Split(duration_str, <<" ", "-", " ">>)[1]))

PresentWords == {<<"p", "r", "e", "s", "e", "n", "t">>,
                 <<"c", "u", "r", "r", "e", "n", "t">>,
                 <<"n", "o", "w">>}

\* JSONResumeTransformer._parse_end_date
_parse_end_date(duration_str) ==
    IF ~Truthy(duration_str) THEN << >>
    ELSE LET parts == Split(duration_str, <<" ", "-", " ">>)
         IN  IF Len(parts) >= 2
             THEN LET end_part == Strip(parts[2])
                  IN  IF Lower(end_part) \in PresentWords THEN << >>
                      ELSE json_normalize_date(end_part)
             ELSE << >>

\* JSONResumeTransformer._get_work_summary
_get_work_summary(exp) ==
    IF "selected_role_summary" \in DOMAIN exp THEN exp["selected_role_summary"]
    ELSE LET role_summaries == Get(exp, "role_summaries", << >>)
         IN  IF Truthy(role_summaries) THEN role_summaries[1] ELSE << >>

\* JSONResumeTransformer._get_work_highlights
_get_work_highlights(exp) ==
    IF "selected_accomplishments" \in DOMAIN exp THEN exp["selected_accomplishments"]
    ELSE Get(exp, "accomplishments", << >>)

\* JSONResumeTransformer._transform_work: one work_exp
WorkExp(exp) ==
    [name |-> Get(exp, "company", << >>),
     position |-> Get(exp, "position", << >>),
     url |-> << >>,
     startDate |-> _parse_start_date(Get(exp, "duration", << >>)),
     endDate |-> _parse_end_date(Get(exp, "duration", << >>)),
     summary |-> _get_work_summary(exp),
     highlights |-> _get_work_highlights(exp)]

\* _transform_work with the entries in reverse order
_transform_work_reversed(rd) ==
    LET work == MapSeq(WorkExp, Get(rd, "experience", << >>))
    IN  [i \in 1..Len(work) |-> work[Len(work) + 1 - i]]

\* JSONResumeTransformer._transform_work
_transform_work(rd) == MapSeq(WorkExp, Get(rd, "experience", << >>))

\* JSONResumeTransformer._transform_education: one edu_entry
EduEntry(edu) ==
    [institution |-> Get(edu, "institution", << >>),
     url |-> << >>,
     area |-> Get(edu, "degree", << >>),
     studyType |-> << >>,
     startDate |-> << >>,
     endDate |-> Get(edu, "graduation", << >>),
     score |-> << >>,
     courses |-> << >>]

\* JSONResumeTransformer._transform_education
_transform_education(rd) == MapSeq(EduEntry, Get(rd, "education", << >>))

\* JSONResumeTransformer._transform_skills: the skill_categories dict literal,
\* in the order it is written (and so iterated)
skill_categories(skills_data) ==
    << [k |-> "Programming Languages", v |-> ItemsGet(skills_data, cProgramming, << >>)],
       [k |-> "Technical Skills", v |-> ItemsGet(skills_data, cTechnical, << >>)],
       [k |-> "Tools & Technologies", v |-> ItemsGet(skills_data, cTools, << >>)],
       [k |-> "Soft Skills", v |-> ItemsGet(skills_data, cSoftSkills, << >>)] >>

SkillsEntry(item) == [name |-> item.k, level |-> << >>, keywords |-> item.v]

NonEmptyItem(item) == Truthy(item.v)

\* JSONResumeTransformer._transform_skills
_transform_skills(rd) ==
    MapSeq(SkillsEntry, FilterSeq(NonEmptyItem, skill_categories(Get(rd, "skills", << >>))))

\* JSONResumeTransformer._get_project_description
_get_project_description(proj) ==
    IF "selected_description" \in DOMAIN proj THEN proj["selected_description"]
    ELSE LET descriptions == Get(proj, "descriptions", << >>)
         IN  IF Truthy(descriptions) THEN descriptions[1] ELSE << >>

\* JSONResumeTransformer._transform_projects: one project_entry
JsonProjectEntry(proj) ==
    [name |-> Get(proj, "name", << >>),
     description |-> _get_project_description(proj),
     highlights |-> Get(proj, "achievements", << >>),
     keywords |-> Get(proj, "technologies", << >>),
     startDate |-> << >>,
     endDate |-> << >>,
     url |-> Get(proj, "url", << >>),
     type |-> <<"p", "r", "o", "j", "e", "c", "t">>]

\* JSONResumeTransformer._transform_projects
_transform_projects(rd) == MapSeq(JsonProjectEntry, Get(rd, "projects", << >>))

\* JSONResumeTransformer.transform_to_json_resume (the sections that are
\* always empty lists left out)
transform_to_json_resume(rd) ==
    [basics |-> _transform_basics(rd),
     work |-> _transform_work(rd),
     education |-> _transform_education(rd),
     skills |-> _transform_skills(rd),
     projects |-> _transform_projects(rd)]

-----------------------------------------------------------------------------
(* RenderCVTransformer: dates *)

\* re.match(r'^\d{4}$', s)
MatchYYYY(s) == Len(s) = 4 /\ IsDigit(s)

\* re.match(r'^\d{4}-\d{2}$', s)
MatchYYYYMM(s) ==
    /\ Len(s) = 7
    /\ IsDigit(SubSeq(s, 1, 4))
    /\ s[5] = "-"
    /\ IsDigit(SubSeq(s, 6, 7))

\* re.match(r'^\d{4}-\d{2}-\d{2}$', s)
MatchYYYYMMDD(s) ==
    /\ Len(s) = 10
    /\ IsDigit(SubSeq(s, 1, 4))
    /\ s[5] = "-"
    /\ IsDigit(SubSeq(s, 6, 7))
    /\ s[8] = "-"
    /\ IsDigit(SubSeq(s, 9, 10))

\* RenderCVTransformer._normalize_date: month_mapping
month_mapping ==
    (<<"j", "a", "n">> :> <<"0", "1">>) @@
    (<<"j", "a", "n", "u", "a", "r", "y">> :> <<"0", "1">>) @@
    (<<"f", "e", "b">> :> <<"0", "2">>) @@
    (<<"f", "e", "b", "r", "u", "a", "r", "y">> :> <<"0", "2">>) @@
    (<<"m", "a", "r">> :> <<"0", "3">>) @@
    (<<"m", "a", "r", "c", "h">> :> <<"0", "3">>) @@
    (<<"a", "p", "r">> :> <<"0", "4">>) @@
    (<<"a", "p", "r", "i", "l">> :> <<"0", "4">>) @@
    (<<"m", "a", "y">> :> <<"0", "5">>) @@
    (<<"j", "u", "n">> :> <<"0", "6">>) @@
    (<<"j", "u", "n", "e">> :> <<"0", "6">>) @@
    (<<"j", "u", "l">> :> <<"0", "7">>) @@
    (<<"j", "u", "l", "y">> :> <<"0", "7">>) @@
    (<<"a", "u", "g">> :> <<"0", "8">>) @@
    (<<"a", "u", "g", "u", "s", "t">> :> <<"0", "8">>) @@
    (<<"s", "e", "p">> :> <<"0", "9">>) @@
    (<<"s", "e", "p", "t">> :> <<"0", "9">>) @@
    (<<"s", "e", "p", "t", "e", "m", "b", "e", "r">> :> <<"0", "9">>) @@
    (<<"o", "c", "t">> :> <<"1", "0">>) @@
    (<<"o", "c", "t", "o", "b", "e", "r">> :> <<"1", "0">>) @@
    (<<"n", "o", "v">> :> <<"1", "1">>) @@
    (<<"n", "o", "v", "e", "m", "b", "e", "r">> :> <<"1", "1">>) @@
    (<<"d", "e", "c">> :> <<"1", "2">>) @@
    (<<"d", "e", "c", "e", "m", "b", "e", "r">> :> <<"1", "2">>)

\* The year prefix taken from any run of digits before the first dash.
YearPrefixAnyDigits(d) ==
    IF "-" \in {d[i] : i \in 1..Len(d)}
    THEN LET year_part == Split(d, <<"-">>)[1]
         IN  IF IsDigit(year_part) /\ Len(year_part) = 4 THEN year_part
             ELSE IF IsDigit(year_part) THEN <<"2", "0">> \o year_part
             ELSE << >>
    ELSE << >>

\* RenderCVTransformer._normalize_date: the year taken from "2020-21", "20-21"
YearPrefix(d) ==
    IF "-" \in {d[i] : i \in 1..Len(d)}
    THEN LET year_part == Split(d, <<"-">>)[1]
         IN  IF IsDigit(year_part) /\ Len(year_part) = 4 THEN year_part
             ELSE IF IsDigit(year_part) /\ Len(year_part) = 2 THEN <<"2", "0">> \o year_part
             ELSE << >>
    ELSE << >>

\* _normalize_date with the month name looked up as written (no lower())
_normalize_date_case_sensitive(date_str) ==
    IF ~Truthy(date_str) THEN << >>
    ELSE LET d == Strip(date_str)
             parts == SplitWS(d)
         IN  IF MatchYYYY(d) \/ MatchYYYYMM(d) \/ MatchYYYYMMDD(d) THEN d
             ELSE IF /\ Len(parts) >= 2
                     /\ IsDigit(parts[2]) /\ Len(parts[2]) = 4
                     /\ parts[1] \in DOMAIN month_mapping
                  THEN parts[2] \o <<"-">> \o month_mapping[parts[1]]
             ELSE IF IsDigit(d) /\ Len(d) = 4 THEN d
             ELSE YearPrefix(d)

\* RenderCVTransformer._normalize_date
_normalize_date(date_str) ==
    IF ~Truthy(date_str) THEN << >>
    ELSE LET d == Strip(date_str)
             parts == SplitWS(Lower(d))
         IN  IF MatchYYYY(d) \/ MatchYYYYMM(d) \/ MatchYYYYMMDD(d) THEN d
             ELSE IF /\ Len(parts) >= 2
                     /\ IsDigit(parts[2]) /\ Len(parts[2]) = 4
                     /\ parts[1] \in DOMAIN month_mapping
                  THEN parts[2] \o <<"-">> \o month_mapping[parts[1]]
             ELSE IF IsDigit(d) /\ Len(d) = 4 THEN d
             ELSE YearPrefix(d)

\* RenderCVTransformer._parse_duration: <<start_date, end_date>>
_parse_duration(duration_str) ==
    IF ~Truthy(duration_str) THEN << << >>, << >> >>
    ELSE LET parts == Split(duration_str, <<" ", "-", " ">>)
         IN  IF Len(parts) >= 2
             THEN LET end_date_str == Strip(parts[2])
                  IN  << _normalize_date(Strip(parts[1])),
                         IF Lower(end_date_str) \in PresentWords
                         THEN <<"p", "r", "e", "s", "e", "n", "t">>
                         ELSE _normalize_date(end_date_str) >>
             ELSE << _normalize_date(duration_str), << >> >>

\* _parse_education_dates with a window that starts in the graduation year
_parse_education_dates_same_year(graduation_str) ==
    IF ~Truthy(graduation_str) THEN << << >>, << >> >>
    ELSE LET g == Strip(graduation_str)
             parts == Split(g, <<" ", "-", " ">>)
             normalized == _normalize_date(g)
         IN  IF IsDigit(g) /\ Len(g) = 4
             THEN << g \o <<"-", "0", "9">>, g \o <<"-", "0", "5">> >>
             ELSE IF Len(parts) >= 2
             THEN LET start_year == Strip(parts[1])
                      end_year == Strip(parts[2])
                  IN  << IF IsDigit(start_year) /\ Len(start_year) = 4
                         THEN start_year \o <<"-", "0", "9">>
                         ELSE _normalize_date(start_year),
                         IF IsDigit(end_year) /\ Len(end_year) = 4
                         THEN end_year \o <<"-", "0", "5">>
                         ELSE IF Lower(end_year) \in PresentWords
                         THEN <<"p", "r", "e", "s", "e", "n", "t">>
                         ELSE _normalize_date(end_year) >>
             ELSE IF Truthy(normalized) /\ normalized # g
             THEN <<normalized, normalized>>
             ELSE << << >>, << >> >>

\* RenderCVTransformer._parse_education_dates: <<start_date, end_date>>
_parse_education_dates(graduation_str) ==
    IF ~Truthy(graduation_str) THEN << << >>, << >> >>
    ELSE LET g == Strip(graduation_str)
             parts == Split(g, <<" ", "-", " ">>)
             normalized == _normalize_date(g)
         IN  IF IsDigit(g) /\ Len(g) = 4
             THEN << StrOf(IntOf(g) - 4) \o <<"-", "0", "9">>, g \o <<"-", "0", "5">> >>
             ELSE IF Len(parts) >= 2
             THEN LET start_year == Strip(parts[1])
                      end_year == Strip(parts[2])
                  IN  << IF IsDigit(start_year) /\ Len(start_year) = 4
                         THEN start_year \o <<"-", "0", "9">>
                         ELSE _normalize_date(start_year),
                         IF IsDigit(end_year) /\ Len(end_year) = 4
                         THEN end_year \o <<"-", "0", "5">>
                         ELSE IF Lower(end_year) \in PresentWords
                         THEN <<"p", "r", "e", "s", "e", "n", "t">>
                         ELSE _normalize_date(end_year) >>
             ELSE IF Truthy(normalized) /\ normalized # g
             THEN <<normalized, normalized>>
             ELSE << << >>, << >> >>

-----------------------------------------------------------------------------
(* RenderCVTransformer: sections *)

\* RenderCVTransformer._build_social_networks: the username of one network
NetworkUsername(url, prefix) ==
    IF Contains(url, prefix)
    THEN LET pieces == Split(url, prefix)
         IN  StripChars(pieces[Len(pieces)], {"/"})
    ELSE url

sLinkedinPrefix ==
    <<"l", "i", "n", "k", "e", "d", "i", "n", ".", "c", "o", "m", "/", "i", "n", "/">>
sGithubPrefix == <<"g", "i", "t", "h", "u", "b", ".", "c", "o", "m", "/">>

\* RenderCVTransformer._build_social_networks
_build_social_networks(contact) ==
    (IF Truthy(Get(contact, "linkedin", << >>))
     THEN << [network |-> "LinkedIn",
              username |-> NetworkUsername(contact["linkedin"], sLinkedinPrefix)] >>
     ELSE << >>)
    \o
    (IF Truthy(Get(contact, "github", << >>))
     THEN << [network |-> "GitHub",
              username |-> NetworkUsername(contact["github"], sGithubPrefix)] >>
     ELSE << >>)

\* RenderCVTransformer._build_experience_entries: the highlights of one entry
RenderCVHighlights(exp) ==
    IF "selected_accomplishments" \in DOMAIN exp THEN exp["selected_accomplishments"]
    ELSE IF Truthy(Get(exp, "accomplishments", << >>)) THEN exp["accomplishments"]
    ELSE << >>

\* RenderCVTransformer._build_experience_entries: the optional summary key
RenderCVSummary(exp) ==
    IF "selected_role_summary" \in DOMAIN exp
    THEN ("summary" :> exp["selected_role_summary"])
    ELSE IF Truthy(Get(exp, "role_summaries", << >>))
    THEN ("summary" :> exp["role_summaries"][1])
    ELSE << >>

\* RenderCVTransformer._build_experience_entries: one entry
ExperienceEntryOut(exp) ==
    LET dates == _parse_duration(Get(exp, "duration", << >>))
    IN  [company |-> Get(exp, "company", << >>),
         position |-> Get(exp, "position", << >>),
         location |-> Get(exp, "location", << >>),
         start_date |-> dates[1],
         end_date |-> dates[2],
         highlights |-> RenderCVHighlights(exp)] @@ RenderCVSummary(exp)

\* RenderCVTransformer._build_experience_entries
_build_experience_entries(experiences) == MapSeq(ExperienceEntryOut, experiences)

\* RenderCVTransformer._build_education_entries: the area of an entry
EduArea(edu) ==
    Or(Or(Get(edu, "field", << >>), Get(edu, "area", << >>)), Get(edu, "degree", << >>))

\* The skip test without its area half.
EduSkippedInstitutionOnly(edu) == ~Truthy(Get(edu, "institution", << >>))

\* RenderCVTransformer._build_education_entries: "continue"
EduSkipped(edu) == ~Truthy(Get(edu, "institution", << >>)) \/ ~Truthy(EduArea(edu))

sGpaLabel == <<"G", "P", "A", ":", " ">>

\* RenderCVTransformer._build_education_entries: the highlights list after
\* the append.  It is edu['highlights'] itself when the entry has that key.
EduHighlights(edu) ==
    IF Truthy(Get(edu, "gpa", << >>))
    THEN Append(Get(edu, "highlights", << >>), sGpaLabel \o edu["gpa"])
    ELSE Get(edu, "highlights", << >>)

OptTruthy(k, v) == IF Truthy(v) THEN (k :> v) ELSE << >>

\* RenderCVTransformer._build_education_entries: one entry
EducationEntryOut(edu) ==
    LET dates == _parse_education_dates(Get(edu, "graduation", << >>))
    IN  [institution |-> Get(edu, "institution", << >>), area |-> EduArea(edu)]
            @@ OptTruthy("degree", Get(edu, "degree", << >>))
            @@ OptTruthy("location", Get(edu, "location", << >>))
            @@ OptTruthy("start_date", dates[1])
            @@ OptTruthy("end_date", dates[2])
            @@ OptTruthy("highlights", EduHighlights(edu))

NotSkipped(edu) == ~EduSkipped(edu)

\* RenderCVTransformer._build_education_entries: the returned entries
_build_education_entries(education) ==
    MapSeq(EducationEntryOut, FilterSeq(NotSkipped, education))

\* RenderCVTransformer._build_education_entries: what highlights.append(...)
\* leaves in the caller's education entry
EduAfterBuild(edu) ==
    IF ~EduSkipped(edu) /\ "highlights" \in DOMAIN edu
    THEN SetKey(edu, "highlights", EduHighlights(edu))
    ELSE edu

\* RenderCVTransformer._build_education_entries: the caller's education list
\* after the call
EducationAfterBuild(education) == MapSeq(EduAfterBuild, education)

sTechnologies ==
    <<"T", "e", "c", "h", "n", "o", "l", "o", "g", "i", "e", "s", ":", " ">>

\* RenderCVTransformer._build_project_entries: one entry
ProjectEntryOut(proj) ==
    LET summary ==
            IF "selected_description" \in DOMAIN proj THEN proj["selected_description"]
            ELSE IF Truthy(Get(proj, "descriptions", << >>)) THEN proj["descriptions"][1]
            ELSE << >>
        highlights ==
            (IF Truthy(Get(proj, "technologies", << >>))
             THEN << sTechnologies \o Join(proj["technologies"], <<",", " ">>) >>
             ELSE << >>)
            \o Get(proj, "achievements", << >>)
        project_name == Get(proj, "name", << >>)
    IN  [name |-> IF Truthy(Get(proj, "url", << >>))
                  THEN <<"[">> \o project_name \o <<"]", "(">> \o proj["url"] \o <<")">>
                  ELSE project_name,
         highlights |-> highlights]
            @@ OptTruthy("summary", summary)
            @@ OptTruthy("location", Get(proj, "location", << >>))

HasName(proj) == Truthy(Get(proj, "name", << >>))

\* RenderCVTransformer._build_project_entries
_build_project_entries(projects) == MapSeq(ProjectEntryOut, FilterSeq(HasName, projects))

\* RenderCVTransformer._build_skills_entries: one entry
SkillsLabelDetails(item) ==
    [label |-> Title(Replace(item.k, "_", <<" ">>)),
     details |-> Join(item.v, <<",", " ">>)]

\* RenderCVTransformer._build_skills_entries
_build_skills_entries(skills_data) ==
    MapSeq(SkillsLabelDetails, FilterSeq(NonEmptyItem, skills_data))

OptSection(k, present, v) == IF present THEN (k :> v) ELSE << >>

\* RenderCVTransformer._build_sections
_build_sections(rd) ==
    LET summary_data == Get(rd, "summary", << >>)
        summary_text ==
            IF "selected_sentences" \in DOMAIN summary_data
            THEN summary_data["selected_sentences"]
            ELSE Get(summary_data, "sentences", << >>)
        experiences == Get(rd, "experience", << >>)
        education == Get(rd, "education", << >>)
        projects == Get(rd, "projects", << >>)
        skills_data == Get(rd, "skills", << >>)
    IN  OptSection("summary", Truthy(summary_text), summary_text)
        @@ OptSection("experience", Truthy(experiences), _build_experience_entries(experiences))
        @@ OptSection("education", Truthy(education), _build_education_entries(education))
        @@ OptSection("projects", Truthy(projects), _build_project_entries(projects))
        @@ OptSection("skills", Truthy(skills_data), _build_skills_entries(skills_data))

\* RenderCVTransformer._format_phone
_format_phone(phone) == phone

\* RenderCVTransformer._get_design_config
_get_design_config(theme) == [theme |-> theme, page_size |-> "us-letter"]

\* RenderCVTransformer.transform_to_rendercv: the returned document.  date is
\* datetime.now() formatted as %Y-%m-%d.
transform_to_rendercv(rd, theme, date) ==
    LET contact == Get(rd, "contact", << >>)
    IN  [cv |-> [name |-> Get(contact, "name", <<"Y", "o", "u", "r", " ", "N", "a", "m", "e">>),
                 title |-> Get(contact, "title", << >>),
                 location |-> Or(Or(Get(contact, "city", << >>), Get(contact, "location", << >>)),
                                 <<"L", "o", "c", "a", "t", "i", "o", "n">>),
                 email |-> Get(contact, "email", <<"e", "m", "a", "i", "l", "@", "e", "x", "a", "m", "p", "l", "e", ".", "c", "o", "m">>),
                 phone |-> _format_phone(Get(contact, "phone", << >>)),
                 website |-> Get(contact, "website", <<"w", "w", "w", ".", "a", "k", "a", "s", "h", "e", ".", "i", "o">>),
                 social_networks |-> _build_social_networks(contact),
                 sections |-> _build_sections(rd)],
         design |-> _get_design_config(theme),
         rendercv_settings |-> [date |-> date]]

\* RenderCVTransformer.transform_to_rendercv: the caller's record after the
\* call (_build_sections runs _build_education_entries only on a non-empty list)
RecordAfterRenderCV(rd) ==
    IF "education" \in DOMAIN rd
    THEN [rd EXCEPT !["education"] = EducationAfterBuild(rd["education"])]
    ELSE rd

-----------------------------------------------------------------------------
(* Flat markdown: ThemeExporter._generate_markdown_from_data and            *)
(* JobMatcher.generate_markdown                                             *)

\* One element of a string: the bullet glyph U+2022.
Bullet == "bullet"

\* xs[0] + xs[1] + ... for lists (or strs) xs
RECURSIVE Concat(_)
Concat(xs) == IF xs = << >> THEN << >> ELSE Head(xs) \o Concat(Tail(xs))

\* [x for e in xs for x in F(e)]
ConcatMap(F(_), xs) == Concat(MapSeq(F, xs))

\* [v for v in vals if v]
Truthies(vals) == FilterSeq(Truthy, vals)

\* The resolved summary sentences of the transformers that test for the key.
SentencesByKey(rd) ==
    LET summary_data == Get(rd, "summary", << >>)
    IN  IF "selected_sentences" \in DOMAIN summary_data
        THEN summary_data["selected_sentences"]
        ELSE Get(summary_data, "sentences", << >>)

\* ThemeExporter._generate_markdown_from_data: the parts of one experience
ThemeExperienceParts(exp) ==
    LET position == Get(exp, "position", << >>)
        company == Get(exp, "company", << >>)
        duration == Get(exp, "duration", << >>)
    IN  (IF Truthy(position) /\ Truthy(company)
         THEN << <<"\n", "#", "#", "#", " ">> \o position \o <<" ", "-", " ">> \o company >>
              \o (IF Truthy(duration) THEN << <<"*", "*">> \o duration \o <<"*", "*">> >> ELSE << >>)
         ELSE << >>)
        \o (IF "selected_role_summary" \in DOMAIN exp THEN << exp["selected_role_summary"] >>
            ELSE IF Truthy(Get(exp, "role_summaries", << >>)) THEN << exp["role_summaries"][1] >>
            ELSE << >>)
        \o [i \in 1..Len(RenderCVHighlights(exp)) |-> <<Bullet, " ">> \o RenderCVHighlights(exp)[i]]

\* ThemeExporter._generate_markdown_from_data: the parts of one project
ThemeProjectParts(proj) ==
    (IF Truthy(Get(proj, "name", << >>)) THEN << <<"\n", "#", "#", "#", " ">> \o proj["name"] >> ELSE << >>)
    \o (IF "selected_description" \in DOMAIN proj THEN << proj["selected_description"] >>
        ELSE IF Truthy(Get(proj, "descriptions", << >>)) THEN << proj["descriptions"][1] >>
        ELSE << >>)
    \o (IF Truthy(Get(proj, "technologies", << >>))
        THEN << <<"*", "*", "T", "e", "c", "h", "n", "o", "l", "o", "g", "i", "e", "s", ":", "*",
      "*", " ">> \o Join(proj["technologies"], <<",", " ">>) >>
        ELSE << >>)

\* ThemeExporter._generate_markdown_from_data: the part of one skills item
ThemeSkillsParts(item) ==
    IF Truthy(item.v)
    THEN << <<"*", "*">> \o Title(Replace(item.k, "_", <<" ">>)) \o <<":", "*", "*", " ">>
            \o Join(item.v, <<",", " ">>) >>
    ELSE << >>

\* ThemeExporter._generate_markdown_from_data: the parts of one education entry
ThemeEducationParts(edu) ==
    LET degree == Get(edu, "degree", << >>)
        institution == Get(edu, "institution", << >>)
        graduation == Get(edu, "graduation", << >>)
    IN  IF Truthy(degree) /\ Truthy(institution)
        THEN << <<"\n", "#", "#", "#", " ">> \o degree \o <<" ", "-", " ">> \o institution >>
             \o (IF Truthy(graduation) THEN << <<"*", "*">> \o graduation \o <<"*", "*">> >> ELSE << >>)
        ELSE << >>

\* ThemeExporter._generate_markdown_from_data: markdown_parts
markdown_parts(rd) ==
    LET contact == Get(rd, "contact", << >>)
        contact_line == Truthies(<< Get(contact, "email", << >>),
                                    Get(contact, "phone", << >>),
                                    Get(contact, "linkedin", << >>) >>)
        sentences == SentencesByKey(rd)
        experiences == Get(rd, "experience", << >>)
        projects == Get(rd, "projects", << >>)
        skills_data == Get(rd, "skills", << >>)
        education == Get(rd, "education", << >>)
    IN  (IF Truthy(Get(contact, "name", << >>)) THEN << <<"#", " ">> \o contact["name"] >> ELSE << >>)
        \o (IF Truthy(contact_line) THEN << Join(contact_line, <<" ", "|", " ">>) >> ELSE << >>)
        \o (IF Truthy(sentences)
            THEN << <<"\n", "#", "#", " ", "S", "u", "m", "m", "a", "r", "y">>, Join(sentences, <<" ">>) >>
            ELSE << >>)
        \o (IF Truthy(experiences)
            THEN << <<"\n", "#", "#", " ", "E", "x", "p", "e", "r", "i", "e", "n", "c", "e">> >> \o ConcatMap(ThemeExperienceParts, experiences)
            ELSE << >>)
        \o (IF Truthy(projects)
            THEN << <<"\n", "#", "#", " ", "P", "r", "o", "j", "e", "c", "t", "s">> >> \o ConcatMap(ThemeProjectParts, projects)
            ELSE << >>)
        \o (IF Truthy(skills_data)
            THEN << <<"\n", "#", "#", " ", "S", "k", "i", "l", "l", "s">> >> \o ConcatMap(ThemeSkillsParts, skills_data)
            ELSE << >>)
        \o (IF Truthy(education)
            THEN << <<"\n", "#", "#", " ", "E", "d", "u", "c", "a", "t", "i", "o", "n">> >> \o ConcatMap(ThemeEducationParts, education)
            ELSE << >>)

\* ThemeExporter._generate_markdown_from_data
_generate_markdown_from_data(rd) == Join(markdown_parts(rd), <<"\n", "\n">>)

\* JobMatcher.generate_markdown: the header with the contact info
MatcherContact(sc) ==
    IF "contact" \in DOMAIN sc
    THEN LET contact == sc["contact"]
             contact_info == Truthies(<< Get(contact, "email", << >>),
                                         Get(contact, "phone", << >>),
                                         Get(contact, "location", << >>),
                                         Get(contact, "linkedin", << >>),
                                         Get(contact, "github", << >>),
                                         Get(contact, "website", << >>) >>)
         IN  (IF Truthy(Get(contact, "name", << >>))
              THEN <<"#", " ">> \o contact["name"] \o <<"\n", "\n">> ELSE << >>)
             \o (IF Truthy(Get(contact, "title", << >>))
                 THEN <<"*", "*">> \o contact["title"] \o <<"*", "*", "\n", "\n">> ELSE << >>)
             \o (IF Truthy(contact_info)
                 THEN Join(contact_info, <<" ", "|", " ">>) \o <<"\n", "\n">> ELSE << >>)
    ELSE << >>

\* JobMatcher.generate_markdown: the summary section
MatcherSummary(sc) ==
    IF "summary" \in DOMAIN sc /\ Truthy(Get(sc["summary"], "selected_sentences", << >>))
    THEN <<"#", "#", " ", "S", "u", "m", "m", "a", "r", "y", "\n", "\n">> \o Join(sc["summary"]["selected_sentences"], <<" ">>) \o <<"\n", "\n">>
    ELSE << >>

\* JobMatcher.generate_markdown: the bullet lines of one list
BulletLines(items) == Concat([i \in 1..Len(items) |-> <<Bullet, " ">> \o items[i] \o <<"\n">>])

\* JobMatcher.generate_markdown: one experience
MatcherExperience(exp) ==
    (IF Truthy(Get(exp, "position", << >>)) /\ Truthy(Get(exp, "company", << >>))
     THEN <<"#", "#", "#", " ">> \o exp["position"] \o <<" ", "|", " ">> \o exp["company"]
          \o (IF Truthy(Get(exp, "duration", << >>)) THEN <<" ", "|", " ">> \o exp["duration"] ELSE << >>)
          \o <<"\n", "\n">>
     ELSE << >>)
    \o (IF Truthy(Get(exp, "selected_role_summary", << >>))
        THEN exp["selected_role_summary"] \o <<"\n", "\n">> ELSE << >>)
    \o (IF Truthy(Get(exp, "selected_accomplishments", << >>))
        THEN BulletLines(exp["selected_accomplishments"]) \o <<"\n", "\n">> ELSE << >>)

\* JobMatcher.generate_markdown: the skills of every non-empty category
MatcherAllSkills(skills_data) ==
    Concat([i \in 1..Len(skills_data) |->
                IF Truthy(skills_data[i].v) THEN skills_data[i].v ELSE << >>])

\* JobMatcher.generate_markdown: one project
MatcherProject(proj) ==
    (IF Truthy(Get(proj, "name", << >>))
     THEN <<"#", "#", "#", " ">> \o proj["name"]
          \o (IF Truthy(Get(proj, "url", << >>)) THEN <<" ", "|", " ">> \o proj["url"] ELSE << >>)
          \o <<"\n", "\n">>
     ELSE << >>)
    \o (IF Truthy(Get(proj, "selected_description", << >>))
        THEN proj["selected_description"] \o <<"\n", "\n">> ELSE << >>)
    \o (IF Truthy(Get(proj, "technologies", << >>))
        THEN <<"*", "*", "T", "e", "c", "h", "n", "o", "l", "o", "g", "i", "e", "s", ":", "*",
      "*", " ">> \o Join(proj["technologies"], <<",", " ">>) \o <<"\n", "\n">>
        ELSE << >>)

\* JobMatcher.generate_markdown: one education entry
MatcherEducation(edu) ==
    (IF Truthy(Get(edu, "degree", << >>)) /\ Truthy(Get(edu, "institution", << >>))
     THEN <<"#", "#", "#", " ">> \o edu["degree"] \o <<" ", "|", " ">> \o edu["institution"]
          \o (IF Truthy(Get(edu, "graduation", << >>)) THEN <<" ", "|", " ">> \o edu["graduation"] ELSE << >>)
          \o <<"\n", "\n">>
     ELSE << >>)
    \o (IF Truthy(Get(edu, "details", << >>))
        THEN BulletLines(edu["details"]) \o <<"\n">> ELSE << >>)

\* JobMatcher.generate_markdown: one certification
MatcherCertification(cert) ==
    IF Truthy(Get(cert, "name", << >>))
    THEN <<Bullet, " ">> \o cert["name"]
         \o (IF Truthy(Get(cert, "issuer", << >>)) THEN <<" ", "-", " ">> \o cert["issuer"] ELSE << >>)
         \o (IF Truthy(Get(cert, "date", << >>)) THEN <<" ", "(">> \o cert["date"] \o <<")">> ELSE << >>)
         \o <<"\n">>
    ELSE << >>

\* "k in d and d[k]"
HasTruthy(d, k) == k \in DOMAIN d /\ Truthy(d[k])

\* JobMatcher.generate_markdown
generate_markdown(sc) ==
    Strip(
    MatcherContact(sc)
    \o MatcherSummary(sc)
    \o (IF HasTruthy(sc, "experience")
        THEN <<"#", "#", " ", "P", "r", "o", "f", "e", "s", "s", "i", "o", "n", "a", "l", " ",
      "E", "x", "p", "e", "r", "i", "e", "n", "c", "e", "\n", "\n">> \o ConcatMap(MatcherExperience, sc["experience"])
        ELSE << >>)
    \o (IF "skills" \in DOMAIN sc /\ Truthy(MatcherAllSkills(sc["skills"]))
        THEN <<"#", "#", " ", "T", "e", "c", "h", "n", "i", "c", "a", "l", " ", "S", "k", "i",
      "l", "l", "s", "\n", "\n">> \o Join(MatcherAllSkills(sc["skills"]), <<",", " ">>)
             \o <<"\n", "\n">>
        ELSE << >>)
    \o (IF HasTruthy(sc, "projects")
        THEN <<"#", "#", " ", "P", "r", "o", "j", "e", "c", "t", "s", "\n", "\n">> \o ConcatMap(MatcherProject, sc["projects"])
        ELSE << >>)
    \o (IF HasTruthy(sc, "education")
        THEN <<"#", "#", " ", "E", "d", "u", "c", "a", "t", "i", "o", "n", "\n", "\n">> \o ConcatMap(MatcherEducation, sc["education"])
        ELSE << >>)
    \o (IF HasTruthy(sc, "certifications")
        THEN <<"#", "#", " ", "C", "e", "r", "t", "i", "f", "i", "c", "a", "t", "i", "o", "n",
      "s", "\n", "\n">> \o ConcatMap(MatcherCertification, sc["certifications"])
             \o <<"\n">>
        ELSE << >>)
    \o (IF HasTruthy(sc, "achievements")
        THEN <<"#", "#", " ", "A", "c", "h", "i", "e", "v", "e", "m", "e", "n", "t", "s", "\n",
      "\n">> \o BulletLines(sc["achievements"]) \o <<"\n">>
        ELSE << >>))

-----------------------------------------------------------------------------
(* Typst source: TypstRenderer._generate_modern_cv_content and              *)
(* TypstRenderer._generate_basic_resume_content                             *)

\* The summary both generators insert.
TypstSummary(rd) == Join(SentencesByKey(rd), <<" ">>)

\* The f-string that opens the modern-cv document, with its placeholders.
ModernCvHeader(firstname, lastname, email, phone, linkedin) ==
    <<"#", "i", "m", "p", "o", "r", "t", " ", DQ, "@", "p", "r", "e", "v", "i", "e",
      "w", "/", "m", "o", "d", "e", "r", "n", "-", "c", "v", ":", "0", ".", "8",
      ".", "0", DQ, ":", " ", "*", "\n", "\n", "#", "s", "h", "o", "w", ":", " ",
      "r", "e", "s", "u", "m", "e", ".", "w", "i", "t", "h", "(", "\n", " ", " ",
      "a", "u", "t", "h", "o", "r", ":", " ", "(", "\n", " ", " ", " ", " ", "f",
      "i", "r", "s", "t", "n", "a", "m", "e", ":", " ", DQ>>
    \o firstname \o <<DQ, ",", "\n", " ", " ", " ", " ", "l", "a", "s", "t", "n", "a", "m", "e", ":",
      " ", DQ>>
    \o lastname \o <<DQ, ",", "\n", " ", " ", " ", " ", "e", "m", "a", "i", "l", ":", " ", DQ>>
    \o email \o <<DQ, ",", "\n", " ", " ", " ", " ", "p", "h", "o", "n", "e", ":", " ", DQ>>
    \o phone \o <<DQ, ",", "\n", " ", " ", " ", " ", "g", "i", "t", "h", "u", "b", ":", " ", DQ,
      DQ, ",", "\n", " ", " ", " ", " ", "l", "i", "n", "k", "e", "d", "i", "n",
      ":", " ", DQ>>
    \o linkedin
    \o <<DQ, ",", "\n", " ", " ", " ", " ", "a", "d", "d", "r", "e", "s", "s", ":", " ",
      DQ, DQ, ",", "\n", " ", " ", " ", " ", "p", "o", "s", "i", "t", "i", "o",
      "n", "s", ":", " ", "(", ")", "\n", " ", " ", ")", ",", "\n", " ", " ", "p",
      "r", "o", "f", "i", "l", "e", "-", "p", "i", "c", "t", "u", "r", "e", ":",
      " ", "n", "o", "n", "e", ",", "\n", " ", " ", "d", "a", "t", "e", ":", " ",
      "d", "a", "t", "e", "t", "i", "m", "e", ".", "t", "o", "d", "a", "y", "(",
      ")", ".", "d", "i", "s", "p", "l", "a", "y", "(", ")", "\n", ")", "\n", "\n">>

\* contact.get('name', '').split()[0] if contact.get('name') else 'John'
FirstName(contact) ==
    IF Truthy(Get(contact, "name", << >>)) THEN SplitWS(contact["name"])[1] ELSE <<"J", "o", "h", "n">>

\* ' '.join(name.split()[1:]) if name and len(name.split()) > 1 else 'Doe'
LastName(contact) ==
    IF Truthy(Get(contact, "name", << >>)) /\ Len(SplitWS(contact["name"])) > 1
    THEN Join(Tail(SplitWS(contact["name"])), <<" ">>)
    ELSE <<"D", "o", "e">>

\* The f-string of a "= Summary" section.
TypstSummarySection(summary) ==
    IF Truthy(summary) THEN <<"=", " ", "S", "u", "m", "m", "a", "r", "y", "\n">> \o _escape_typst(summary) \o <<"\n", "\n">> ELSE << >>

\* The "- ..." lines of one experience.
TypstBullets(exp) ==
    Concat([i \in 1..Len(RenderCVHighlights(exp)) |->
                <<"-", " ">> \o _escape_typst(RenderCVHighlights(exp)[i]) \o <<"\n">>])

\* _generate_modern_cv_content: one experience
ModernCvExperience(exp) ==
    LET company == _escape_typst(Get(exp, "company", << >>))
        position == _escape_typst(Get(exp, "position", << >>))
        duration == _escape_typst(Get(exp, "duration", << >>))
        role_summary ==
            IF "selected_role_summary" \in DOMAIN exp
            THEN _escape_typst(exp["selected_role_summary"])
            ELSE IF Truthy(Get(exp, "role_summaries", << >>))
            THEN _escape_typst(exp["role_summaries"][1])
            ELSE << >>
    IN  <<"#", "r", "e", "s", "u", "m", "e", "-", "e", "n", "t", "r", "y", "(", "\n", " ",
      " ", "t", "i", "t", "l", "e", ":", " ", DQ>> \o company \o <<DQ, ",", "\n", " ", " ", "l", "o", "c", "a", "t", "i", "o", "n", ":", " ", DQ>> \o position
        \o <<DQ, ",", "\n", " ", " ", "d", "a", "t", "e", ":", " ", DQ>> \o duration \o <<DQ, "\n", ")", "\n">>
        \o (IF Truthy(role_summary) THEN role_summary \o <<"\n", "\n">> ELSE << >>)
        \o TypstBullets(exp)
        \o <<"\n">>

\* The escaped description of a project.
TypstDescription(proj) ==
    IF "selected_description" \in DOMAIN proj THEN _escape_typst(proj["selected_description"])
    ELSE IF Truthy(Get(proj, "descriptions", << >>)) THEN _escape_typst(proj["descriptions"][1])
    ELSE << >>

\* _generate_modern_cv_content: one project
ModernCvProject(proj) ==
    <<"#", "r", "e", "s", "u", "m", "e", "-", "e", "n", "t", "r", "y", "(", "\n", " ",
      " ", "t", "i", "t", "l", "e", ":", " ", DQ>> \o _escape_typst(Get(proj, "name", << >>))
    \o <<DQ, ",", "\n", " ", " ", "l", "o", "c", "a", "t", "i", "o", "n", ":", " ", DQ,
      DQ, ",", "\n", " ", " ", "d", "a", "t", "e", ":", " ", DQ, DQ, "\n", ")", "\n">> \o TypstDescription(proj) \o <<"\n", "\n">>
    \o (IF Truthy(Get(proj, "technologies", << >>))
        THEN <<"*", "T", "e", "c", "h", "n", "o", "l", "o", "g", "i", "e", "s", ":", "*", " ">> \o _escape_typst(Join(proj["technologies"], <<",", " ">>))
             \o <<"\n", "\n">>
        ELSE << >>)

\* The "*Category:* skills" paragraph of one skills item (both generators).
TypstSkillsItem(item) ==
    IF Truthy(item.v)
    THEN <<"*">> \o _escape_typst(Title(Replace(item.k, "_", <<" ">>))) \o <<":", "*", " ">>
         \o _escape_typst(Join(item.v, <<",", " ">>)) \o <<"\n", "\n">>
    ELSE << >>

\* The "= Skills" section (both generators).
TypstSkillsSection(skills_data) ==
    IF Truthy(skills_data)
    THEN <<"=", " ", "S", "k", "i", "l", "l", "s", "\n", "\n">> \o ConcatMap(TypstSkillsItem, skills_data)
    ELSE << >>

\* _generate_modern_cv_content: one education entry
ModernCvEducation(edu) ==
    <<"#", "r", "e", "s", "u", "m", "e", "-", "e", "n", "t", "r", "y", "(", "\n", " ",
      " ", "t", "i", "t", "l", "e", ":", " ", DQ>> \o _escape_typst(Get(edu, "institution", << >>))
    \o <<DQ, ",", "\n", " ", " ", "l", "o", "c", "a", "t", "i", "o", "n", ":", " ", DQ>> \o _escape_typst(Get(edu, "degree", << >>))
    \o <<DQ, ",", "\n", " ", " ", "d", "a", "t", "e", ":", " ", DQ>> \o _escape_typst(Get(edu, "graduation", << >>)) \o <<DQ, "\n", ")", "\n", "\n">>

\* A section with a fixed title, present when the list is non-empty.
TypstSection(title, F(_), entries) ==
    IF Truthy(entries) THEN title \o ConcatMap(F, entries) ELSE << >>

\* TypstRenderer._generate_modern_cv_content
_generate_modern_cv_content(rd) ==
    LET contact == Get(rd, "contact", << >>)
    IN  ModernCvHeader(_escape_typst(FirstName(contact)), _escape_typst(LastName(contact)),
                       Get(contact, "email", << >>), Get(contact, "phone", << >>),
                       Get(contact, "linkedin", << >>))
        \o TypstSummarySection(TypstSummary(rd))
        \o TypstSection(<<"=", " ", "E", "x", "p", "e", "r", "i", "e", "n", "c", "e", "\n", "\n">>, ModernCvExperience, Get(rd, "experience", << >>))
        \o TypstSection(<<"=", " ", "P", "r", "o", "j", "e", "c", "t", "s", "\n", "\n">>, ModernCvProject, Get(rd, "projects", << >>))
        \o TypstSkillsSection(Get(rd, "skills", << >>))
        \o TypstSection(<<"=", " ", "E", "d", "u", "c", "a", "t", "i", "o", "n", "\n", "\n">>, ModernCvEducation, Get(rd, "education", << >>))

\* The f-string that opens the basic-resume document, with its placeholders.
BasicResumeHeader(author, location, email, phone, linkedin) ==
    <<"#", "i", "m", "p", "o", "r", "t", " ", DQ, "@", "p", "r", "e", "v", "i", "e",
      "w", "/", "b", "a", "s", "i", "c", "-", "r", "e", "s", "u", "m", "e", ":",
      "0", ".", "1", ".", "3", DQ, ":", " ", "*", "\n", "\n", "#", "s", "h", "o",
      "w", ":", " ", "r", "e", "s", "u", "m", "e", ".", "w", "i", "t", "h", "(",
      "\n", " ", " ", "a", "u", "t", "h", "o", "r", ":", " ", DQ>>
    \o author \o <<DQ, ",", "\n", " ", " ", "l", "o", "c", "a", "t", "i", "o", "n", ":", " ", DQ>>
    \o location \o <<DQ, ",", "\n", " ", " ", "e", "m", "a", "i", "l", ":", " ", DQ>>
    \o email \o <<DQ, ",", "\n", " ", " ", "p", "h", "o", "n", "e", ":", " ", DQ>>
    \o phone \o <<DQ, ",", "\n", " ", " ", "g", "i", "t", "h", "u", "b", ":", " ", DQ, DQ, ",",
      "\n", " ", " ", "l", "i", "n", "k", "e", "d", "i", "n", ":", " ", DQ>>
    \o linkedin \o <<DQ, ",", "\n", " ", " ", "p", "e", "r", "s", "o", "n", "a", "l", "-", "s", "i",
      "t", "e", ":", " ", DQ, DQ, "\n", ")", "\n", "\n">>

\* _generate_basic_resume_content: one experience
BasicResumeExperience(exp) ==
    <<"*">> \o _escape_typst(Get(exp, "position", << >>)) \o <<"*", " ", "|", " ", "*">>
    \o _escape_typst(Get(exp, "company", << >>)) \o <<"*", " ", "#", "h", "(", "1", "f", "r", ")", " ">>
    \o _escape_typst(Get(exp, "duration", << >>)) \o <<"\n">>
    \o TypstBullets(exp)
    \o <<"\n">>

\* _generate_basic_resume_content: one project
BasicResumeProject(proj) ==
    <<"*">> \o _escape_typst(Get(proj, "name", << >>)) \o <<"*", "\n">> \o TypstDescription(proj)
    \o <<"\n">>
    \o (IF Truthy(Get(proj, "technologies", << >>))
        THEN <<"T", "e", "c", "h", "n", "o", "l", "o", "g", "i", "e", "s", ":", " ">> \o _escape_typst(Join(proj["technologies"], <<",", " ">>))
             \o <<"\n">>
        ELSE << >>)
    \o <<"\n">>

\* _generate_basic_resume_content: one education entry
BasicResumeEducation(edu) ==
    <<"*">> \o _escape_typst(Get(edu, "degree", << >>)) \o <<"*", " ", "|", " ", "*">>
    \o _escape_typst(Get(edu, "institution", << >>)) \o <<"*", " ", "#", "h", "(", "1", "f", "r", ")", " ">>
    \o _escape_typst(Get(edu, "graduation", << >>)) \o <<"\n", "\n">>

\* TypstRenderer._generate_basic_resume_content
_generate_basic_resume_content(rd) ==
    LET contact == Get(rd, "contact", << >>)
    IN  BasicResumeHeader(_escape_typst(Get(contact, "name", <<"Y", "o", "u", "r", " ", "N", "a", "m", "e">>)),
                          _escape_typst(Or(Get(contact, "city", << >>),
                                           Get(contact, "location", << >>))),
                          Get(contact, "email", << >>), Get(contact, "phone", << >>),
                          Get(contact, "linkedin", << >>))
        \o TypstSummarySection(TypstSummary(rd))
        \o TypstSection(<<"=", " ", "E", "x", "p", "e", "r", "i", "e", "n", "c", "e", "\n", "\n">>, BasicResumeExperience, Get(rd, "experience", << >>))
        \o TypstSection(<<"=", " ", "P", "r", "o", "j", "e", "c", "t", "s", "\n", "\n">>, BasicResumeProject, Get(rd, "projects", << >>))
        \o TypstSkillsSection(Get(rd, "skills", << >>))
        \o TypstSection(<<"=", " ", "E", "d", "u", "c", "a", "t", "i", "o", "n", "\n", "\n">>, BasicResumeEducation, Get(rd, "education", << >>))

-----------------------------------------------------------------------------
(* The transformers called on the session's record *)

\* Most transformer calls made on one record.
MaxCalls == 2

Dates == {<<"2", "0", "2", "6", "-", "1", "1", "-", "0", "2">>}

\* RenderCVRenderer.AVAILABLE_THEMES (two of them)
Themes == {"classic", "sb2nov"}

XfInit ==
    /\ resume_data \in ResumeRecords
    /\ output = [op |-> "none"]
    /\ calls = 0
    /\ today \in Dates
    /\ EscIdle
    /\ RenderIdle
    /\ DateIdle
    /\ TailorIdle

TransformToJsonResume ==
    /\ calls < MaxCalls
    /\ output' = [op |-> "json_resume", doc |-> transform_to_json_resume(resume_data)]
    /\ calls' = calls + 1
    /\ UNCHANGED <<resume_data, today>>
    /\ UNCHANGED escVars
    /\ UNCHANGED renderVars
    /\ UNCHANGED dateVars
    /\ UNCHANGED tailorVars

TransformToRenderCV ==
    /\ calls < MaxCalls
    /\ \E theme \in Themes :
          output' = [op |-> "rendercv", doc |-> transform_to_rendercv(resume_data, theme, today)]
    /\ resume_data' = RecordAfterRenderCV(resume_data)
    /\ calls' = calls + 1
    /\ UNCHANGED today
    /\ UNCHANGED escVars
    /\ UNCHANGED renderVars
    /\ UNCHANGED dateVars
    /\ UNCHANGED tailorVars

\* A transformer that returns a document and leaves the record alone.
Generate(op, doc) ==
    /\ calls < MaxCalls
    /\ output' = [op |-> op, doc |-> doc]
    /\ calls' = calls + 1
    /\ UNCHANGED <<resume_data, today>>
    /\ UNCHANGED escVars
    /\ UNCHANGED renderVars
    /\ UNCHANGED dateVars
    /\ UNCHANGED tailorVars

GenerateThemeMarkdown == Generate("theme_markdown", _generate_markdown_from_data(resume_data))

GenerateMatcherMarkdown == Generate("matcher_markdown", generate_markdown(resume_data))

GenerateModernCv == Generate("typst_modern_cv", _generate_modern_cv_content(resume_data))

GenerateBasicResume == Generate("typst_basic_resume", _generate_basic_resume_content(resume_data))

XfNext ==
    \/ TransformToJsonResume
    \/ TransformToRenderCV
    \/ GenerateThemeMarkdown
    \/ GenerateMatcherMarkdown
    \/ GenerateModernCv
    \/ GenerateBasicResume

SpecTransform == XfInit /\ [][XfNext]_vars
-----------------------------------------------------------------------------
(* Claims about the transformers                                            *)

\* C1: a call of transform_to_rendercv or transform_to_json_resume leaves the
\* Resume Record structurally equal to what it was before the call.
C1_TransformersNeverMutateInput ==
    [][(TransformToJsonResume \/ TransformToRenderCV) => resume_data' = resume_data]_vars

\* resolve_single as stated: the override when it is present and non-empty,
\* otherwise the first candidate, otherwise the empty string.
resolve_single(d, override, candidates) ==
    IF override \in DOMAIN d /\ d[override] # << >> THEN d[override]
    ELSE IF Get(d, candidates, << >>) # << >> THEN d[candidates][1]
    ELSE << >>

ExperienceOf(rd) == Get(rd, "experience", << >>)

ProjectsOf(rd) == Get(rd, "projects", << >>)

\* The experience entries of a RenderCV document.
RenderCVExperience(doc) == Get(doc.cv.sections, "experience", << >>)

\* C2: the role summary of every experience and the description of every
\* project that a transformer emits is the override when the override is
\* present and non-empty, otherwise the first candidate, otherwise the empty
\* string; an override that is present but empty falls back to the first
\* candidate.
C2_ResolveSingle ==
    /\ output.op = "json_resume" =>
        /\ \A i \in 1..Len(ExperienceOf(resume_data)) :
              output.doc.work[i].summary =
                  resolve_single(resume_data.experience[i], "selected_role_summary",
                                 "role_summaries")
        /\ \A i \in 1..Len(ProjectsOf(resume_data)) :
              output.doc.projects[i].description =
                  resolve_single(resume_data.projects[i], "selected_description",
                                 "descriptions")
    /\ output.op = "rendercv" =>
        \A i \in 1..Len(ExperienceOf(resume_data)) :
            Get(RenderCVExperience(output.doc)[i], "summary", << >>) =
                resolve_single(resume_data.experience[i], "selected_role_summary",
                               "role_summaries")

\* resolve_multi as stated: the override whenever its key is present, the
\* full candidate sequence otherwise.
resolve_multi(d, override, candidates) ==
    IF override \in DOMAIN d THEN d[override] ELSE Get(d, candidates, << >>)

\* The accomplishments of every experience of a record, as resolve_multi
\* gives them, in order.
ResolvedAccomplishments(rd) ==
    Concat([i \in 1..Len(ExperienceOf(rd)) |->
                resolve_multi(rd.experience[i], "selected_accomplishments",
                              "accomplishments")])

\* The items of the bullet lines of a markdown document, in order: a bullet
\* line starts with the bullet glyph and a space and runs to the end of its line.
BulletStarts(doc) ==
    {i \in 1..(Len(doc) - 1) :
        doc[i] = Bullet /\ doc[i + 1] = " " /\ (i = 1 \/ doc[i - 1] = "\n")}

LineEnd(doc, i) ==
    CHOOSE j \in i..(Len(doc) + 1) :
        /\ j = Len(doc) + 1 \/ doc[j] = "\n"
        /\ \A m \in i..(j - 1) : doc[m] # "\n"

MarkdownBullets(doc) ==
    [n \in 1..Cardinality(BulletStarts(doc)) |->
        LET i == CHOOSE p \in BulletStarts(doc) :
                     Cardinality({q \in BulletStarts(doc) : q < p}) = n - 1
        IN  SubSeq(doc, i + 2, LineEnd(doc, i) - 1)]

\* C3: the accomplishments a transformer emits for an experience are the
\* selected_accomplishments sequence whenever that key is present (also when
\* it is empty) and the full accomplishments sequence when the key is absent:
\* in the JSON resume work highlights, in the RenderCV experience highlights
\* and in the bullets of the matcher's markdown.
C3_ResolveMulti ==
    /\ output.op = "json_resume" =>
        \A i \in 1..Len(ExperienceOf(resume_data)) :
            output.doc.work[i].highlights =
                resolve_multi(resume_data.experience[i], "selected_accomplishments",
                              "accomplishments")
    /\ output.op = "rendercv" =>
        \A i \in 1..Len(ExperienceOf(resume_data)) :
            RenderCVExperience(output.doc)[i].highlights =
                resolve_multi(resume_data.experience[i], "selected_accomplishments",
                              "accomplishments")
    /\ output.op = "matcher_markdown" =>
        MarkdownBullets(output.doc) = ResolvedAccomplishments(resume_data)

ContactOf(rd) == Get(rd, "contact", << >>)

\* The header of the modern-cv document with every inserted value escaped.
EscapedModernCvHeader(contact) ==
    ModernCvHeader(_escape_typst(FirstName(contact)), _escape_typst(LastName(contact)),
                   _escape_typst(Get(contact, "email", << >>)),
                   _escape_typst(Get(contact, "phone", << >>)),
                   _escape_typst(Get(contact, "linkedin", << >>)))

\* The header of the basic-resume document with every inserted value escaped.
EscapedBasicResumeHeader(contact) ==
    BasicResumeHeader(_escape_typst(Get(contact, "name", <<"Y", "o", "u", "r", " ", "N", "a", "m", "e">>)),
                      _escape_typst(Or(Get(contact, "city", << >>),
                                       Get(contact, "location", << >>))),
                      _escape_typst(Get(contact, "email", << >>)),
                      _escape_typst(Get(contact, "phone", << >>)),
                      _escape_typst(Get(contact, "linkedin", << >>)))

\* C5: every contact value of the Resume Record (email, phone and linkedin as
\* well as the name) is in the generated Typst document as the escaper returns
\* it, never raw.
C5_TypstValuesEscaped ==
    /\ output.op = "typst_modern_cv" =>
        StartsWith(output.doc, EscapedModernCvHeader(ContactOf(resume_data)))
    /\ output.op = "typst_basic_resume" =>
        StartsWith(output.doc, EscapedBasicResumeHeader(ContactOf(resume_data)))

SkillsOf(rd) == Get(rd, "skills", << >>)

\* The declared order of the skill categories.
DeclaredOrder == <<cTechnical, cProgramming, cTools, cSoftSkills>>

HasCategory(skills_data, key) == \E i \in 1..Len(skills_data) : skills_data[i].k = key

\* The items of a skills mapping in the declared order of their categories.
InDeclaredOrder(skills_data) ==
    Concat([c \in 1..Len(DeclaredOrder) |->
                IF HasCategory(skills_data, DeclaredOrder[c])
                THEN <<[k |-> DeclaredOrder[c],
                        v |-> ItemsGet(skills_data, DeclaredOrder[c], << >>)]>>
                ELSE << >>])

\* The name the JSON resume gives a category.
JsonCategoryName(key) ==
    CASE key = cTechnical -> "Technical Skills"
      [] key = cProgramming -> "Programming Languages"
      [] key = cTools -> "Tools & Technologies"
      [] key = cSoftSkills -> "Soft Skills"

JsonNamed(item) == [name |-> JsonCategoryName(item.k), level |-> << >>, keywords |-> item.v]

\* C9: the skills list of the JSON resume has one object per non-empty
\* category in the fixed order technical, programming, tools, soft_skills,
\* whatever the insertion order of the input mapping.
C9_JsonSkillsDeclaredOrder ==
    output.op = "json_resume" =>
        output.doc.skills =
            MapSeq(JsonNamed, FilterSeq(NonEmptyItem, InDeclaredOrder(SkillsOf(resume_data))))

\* The record with its skills mapping populated in the declared order.
WithDeclaredSkills(rd) ==
    IF "skills" \in DOMAIN rd THEN [rd EXCEPT !["skills"] = InDeclaredOrder(rd["skills"])]
    ELSE rd

\* C10: the skills entries of the RenderCV document, of the exporter's
\* markdown and of the Typst documents appear in the declared order technical,
\* programming, tools, soft_skills (empty categories skipped), never in the
\* insertion order of the input mapping: each output is the one a mapping
\* populated in the declared order gives.
C10_SkillsDeclaredOrder ==
    /\ output.op = "rendercv" =>
        Get(output.doc.cv.sections, "skills", << >>) =
            _build_skills_entries(InDeclaredOrder(SkillsOf(resume_data)))
    /\ output.op = "theme_markdown" =>
        output.doc = _generate_markdown_from_data(WithDeclaredSkills(resume_data))
    /\ output.op = "typst_modern_cv" =>
        output.doc = _generate_modern_cv_content(WithDeclaredSkills(resume_data))
    /\ output.op = "typst_basic_resume" =>
        output.doc = _generate_basic_resume_content(WithDeclaredSkills(resume_data))

-----------------------------------------------------------------------------
(* The render invocation adapters: JSONResumeRenderer behind                *)
(* ThemeExporter._export_json_resume, RenderCVRenderer and TypstRenderer,   *)
(* each used as a context manager, by render calls that run concurrently    *)

\* Render calls in flight at once, each on an adapter instance of its own.
NumRenders == 2

Renders == 1..NumRenders

\* ThemeExporter.AVAILABLE_THEMES[ThemeType.JSON_RESUME]
ExporterJsonThemes == {"professional", "elegant"}

\* JSONResumeRenderer.AVAILABLE_THEMES
RendererJsonThemes == {"elegant", "kendall"}

OutputFormats == {"pdf", "html"}

\* What a caller can ask for: a JSON Resume export of an advertised theme,
\* a RenderCV render or a Typst render.
Requests ==
    {[engine |-> "json_resume", theme |-> t, output_format |-> f] :
        t \in ExporterJsonThemes, f \in OutputFormats}
    \cup {[engine |-> "rendercv", theme |-> "classic", output_format |-> "pdf"],
          [engine |-> "typst", theme |-> "modern-cv", output_format |-> "pdf"]}

NoRequest == [engine |-> "none", theme |-> "none", output_format |-> "none"]

NoResult == [status |-> "none"]

\* tempfile.mkdtemp(prefix=...): a directory no other call has.
temp_dir(c) == <<"tmp", c>>

\* os.path.join("test_folder", 'resume.yaml'): the directory part
test_folder == <<"test_folder">>

\* The directory a call writes its document into and runs the renderer in.
WorkDir(c) == IF call[c].engine = "rendercv" THEN test_folder ELSE temp_dir(c)

\* The name of the document source file of an engine.
SourceName(engine) ==
    CASE engine = "json_resume" -> <<"resume.json">>
      [] engine = "rendercv" -> <<"resume.yaml">>
      [] engine = "typst" -> <<"resume.typ">>

\* The document of call c, and what a renderer makes of a document.
Document(c) == [kind |-> "source", of |-> c]

Rendered(doc, format) == [kind |-> format, of |-> doc.of]

\* The name of the file the renderer writes for a document: the output path
\* it is given (resume.pdf, resume.html), or for RenderCV a name it derives
\* from the document.
OutputName(engine, doc, format) ==
    CASE engine = "json_resume" -> IF format = "pdf" THEN <<"resume.pdf">> ELSE <<"resume.html">>
      [] engine = "rendercv" -> <<"cv", doc.of, ".pdf">>
      [] engine = "typst" -> <<"resume.pdf">>

\* open(path, 'w').write(content)
WriteFile(fs, dir, name, content) ==
    {f \in fs : ~(f.dir = dir /\ f.name = name)}
        \cup {[dir |-> dir, name |-> name, content |-> content]}

FileAt(fs, dir, name) == {f \in fs : f.dir = dir /\ f.name = name}

\* shutil.rmtree(dir): the files left
RmTree(fs, dir) == {f \in fs : f.dir # dir}

\* The PDFs RenderCVRenderer._render_with_subprocess finds in the directory.
PdfFiles(fs, dir) == {f \in fs : f.dir = dir /\ f.content.kind = "pdf"}

RenderInit ==
    /\ pc = [c \in Renders |-> "idle"]
    /\ call = [c \in Renders |-> NoRequest]
    /\ dirs \in {{}, {test_folder}}
    /\ files = {}
    /\ outcome = [c \in Renders |-> "none"]
    /\ invocations = [c \in Renders |-> 0]
    /\ result = [c \in Renders |-> NoResult]
    /\ EscIdle
    /\ XfIdle
    /\ DateIdle
    /\ TailorIdle

\* An exception leaves the call: inside _export_json_resume every Exception
\* is caught and the export goes on to its except branch; a RenderCV or
\* Typst render reports it to the caller.
\* listing is the file listing the message carries (listed = FALSE: none).
RaiseListing(c, engine, error, message, listed, listing) ==
    IF engine = "json_resume"
    THEN /\ pc' = [pc EXCEPT ![c] = "except"]
         /\ result' = [result EXCEPT ![c] = [status |-> "caught", error |-> error,
                                             message |-> message, listed |-> listed,
                                             listing |-> listing]]
    ELSE /\ pc' = [pc EXCEPT ![c] = "done"]
         /\ result' = [result EXCEPT ![c] = [status |-> "error", error |-> error,
                                             message |-> message, listed |-> listed,
                                             listing |-> listing]]

Raise(c, engine, error, message) == RaiseListing(c, engine, error, message, FALSE, {})

\* __init__ of the three adapters: mkdtemp, then the check of the external
\* tool, which raises RuntimeError when the tool is not there.
Construct(c) ==
    \E request \in Requests, tool_found \in BOOLEAN :
        /\ pc[c] = "idle"
        /\ call' = [call EXCEPT ![c] = request]
        /\ dirs' = dirs \cup {temp_dir(c)}
        /\ IF tool_found
           THEN /\ pc' = [pc EXCEPT ![c] = "entered"]
                /\ UNCHANGED <<outcome, result>>
           ELSE /\ outcome' = [outcome EXCEPT ![c] = "tool_missing"]
                /\ Raise(c, request.engine, "RuntimeError", "not found")
        /\ UNCHANGED <<files, invocations>>
        /\ UNCHANGED escVars
        /\ UNCHANGED xfVars
        /\ UNCHANGED dateVars
        /\ UNCHANGED tailorVars

\* The first half of render_to_pdf / render_to_html / render_resume, inside
\* the with block: the theme check of JSONResumeRenderer, then the document
\* written to its source file.  An exception runs __exit__ (cleanup) on its
\* way out.
WriteSource(c) ==
    /\ pc[c] = "entered"
    /\ IF call[c].engine = "json_resume" /\ call[c].theme \notin RendererJsonThemes
       THEN /\ dirs' = dirs \ {temp_dir(c)}
            /\ files' = RmTree(files, temp_dir(c))
            /\ Raise(c, call[c].engine, "ValueError", "theme not available")
       ELSE IF WorkDir(c) \notin dirs
       THEN /\ dirs' = dirs \ {temp_dir(c)}
            /\ files' = RmTree(files, temp_dir(c))
            /\ Raise(c, call[c].engine, "RuntimeError", "RenderCV compilation failed")
       ELSE /\ files' = WriteFile(files, WorkDir(c), SourceName(call[c].engine), Document(c))
            /\ pc' = [pc EXCEPT ![c] = "written"]
            /\ UNCHANGED <<dirs, result>>
    /\ UNCHANGED <<call, outcome, invocations>>
    /\ UNCHANGED escVars
    /\ UNCHANGED xfVars
    /\ UNCHANGED dateVars
    /\ UNCHANGED tailorVars

\* How subprocess.run of the external renderer can end.
Outcomes(engine) ==
    {"ok", "nonzero", "timeout", "no_output"}
        \cup (IF engine = "rendercv" THEN {"command_missing"} ELSE {})

\* subprocess.run([...]) of resume export / rendercv render / typst compile:
\* the renderer reads the source file as it is now and, when it succeeds,
\* writes its output file.
RunRenderer(c) ==
    \E oc \in Outcomes(call[c].engine) :
        /\ pc[c] = "written"
        /\ invocations' = [invocations EXCEPT ![c] = @ + 1]
        /\ outcome' = [outcome EXCEPT ![c] = oc]
        /\ files' =
            IF oc = "ok"
            THEN LET source == CHOOSE f \in FileAt(files, WorkDir(c),
                                                   SourceName(call[c].engine)) : TRUE
                 IN  WriteFile(files, WorkDir(c),
                               OutputName(call[c].engine, source.content,
                                          call[c].output_format),
                               Rendered(source.content, call[c].output_format))
            ELSE files
        /\ pc' = [pc EXCEPT ![c] = "ran"]
        /\ UNCHANGED <<call, dirs, result>>
        /\ UNCHANGED escVars
        /\ UNCHANGED xfVars
        /\ UNCHANGED dateVars
        /\ UNCHANGED tailorVars

\* The files the second half of the render can return the bytes of: the
\* output path of a JSON Resume or Typst render; any PDF of the directory for
\* RenderCV (pdf_files[0] of an os.listdir).
Readable(c) ==
    IF call[c].engine = "rendercv" THEN PdfFiles(files, test_folder)
    ELSE FileAt(files, temp_dir(c),
                OutputName(call[c].engine, Document(c), call[c].output_format))

\* The message of the error a failed renderer step ends in.
FailureMessage(engine, oc) ==
    CASE engine = "rendercv" -> "RenderCV compilation failed"
      [] engine = "json_resume" /\ oc = "timeout" -> "Resume export timed out"
      [] engine = "json_resume" /\ oc # "timeout" -> "Error rendering resume"
      [] engine = "typst" /\ oc = "timeout" -> "Typst compilation timed out"
      [] engine = "typst" /\ oc = "nonzero" -> "Typst compilation failed"
      [] engine = "typst" /\ oc \notin {"timeout", "nonzero"} -> "PDF file was not generated"

\* _render_with_subprocess: "No PDF file was generated by RenderCV. Files
\* created: {all_files}", the os.walk of the directory; the other two
\* adapters raise "PDF file was not generated" with no listing.
ListsFiles(engine, oc) == engine = "rendercv" /\ oc = "no_output"

FilesCreated(fs, dir) == {f.name : f \in {g \in fs : g.dir = dir}}

\* The second half of the render and the end of the with block: the return
\* code checked, the output read and returned or an error raised, then
\* __exit__ (cleanup) removing the temporary directory.
ReadOutput(c) ==
    /\ pc[c] = "ran"
    /\ dirs' = dirs \ {temp_dir(c)}
    /\ files' = RmTree(files, temp_dir(c))
    /\ \/ /\ outcome[c] \in {"ok", "no_output"}
          /\ \E f \in Readable(c) :
                /\ result' = [result EXCEPT ![c] = [status |-> "ok",
                                                    backend |-> call[c].engine,
                                                    bytes |-> f.content]]
                /\ pc' = [pc EXCEPT ![c] = "done"]
       \/ /\ outcome[c] \notin {"ok", "no_output"} \/ Readable(c) = {}
          /\ RaiseListing(c, call[c].engine, "RuntimeError",
                          FailureMessage(call[c].engine, outcome[c]),
                          ListsFiles(call[c].engine, outcome[c]),
                          IF ListsFiles(call[c].engine, outcome[c])
                          THEN FilesCreated(files, WorkDir(c)) ELSE {})
    /\ UNCHANGED <<call, outcome, invocations>>
    /\ UNCHANGED escVars
    /\ UNCHANGED xfVars
    /\ UNCHANGED dateVars
    /\ UNCHANGED tailorVars

\* The except branch of ThemeExporter._export_json_resume:
\* return self._export_reportlab(resume_data, 'professional', 'pdf')
ExportFallback(c) ==
    /\ pc[c] = "except"
    /\ result' = [result EXCEPT ![c] = [status |-> "ok", backend |-> "reportlab",
                                        bytes |-> [kind |-> "pdf", of |-> c]]]
    /\ pc' = [pc EXCEPT ![c] = "done"]
    /\ UNCHANGED <<call, dirs, files, outcome, invocations>>
    /\ UNCHANGED escVars
    /\ UNCHANGED xfVars
    /\ UNCHANGED dateVars
    /\ UNCHANGED tailorVars

RenderNext ==
    \E c \in Renders :
        \/ Construct(c)
        \/ WriteSource(c)
        \/ RunRenderer(c)
        \/ ReadOutput(c)
        \/ ExportFallback(c)

SpecRender == RenderInit /\ [][RenderNext]_vars

-----------------------------------------------------------------------------
(* Claims about the render invocation adapters                              *)

\* C6: once a render call has ended, by the constructor failing on a missing
\* tool, by a render that succeeded or by a render that failed, the temporary
\* directory its adapter created no longer exists.
C6_TempDirDeletedOnEveryExit ==
    \A c \in Renders : pc[c] = "done" => temp_dir(c) \notin dirs

\* The document source file of a call.
SourcePath(c) == <<WorkDir(c), SourceName(call[c].engine)>>

\* A call that has written its document and has not yet read its output.
Rendering(c) == pc[c] \in {"written", "ran"}

\* C7: two render calls in progress at once on distinct adapter instances
\* have distinct document source files and distinct output locations.
C7_ConcurrentRendersDisjoint ==
    \A c1, c2 \in Renders :
        c1 # c2 /\ Rendering(c1) /\ Rendering(c2) =>
            SourcePath(c1) # SourcePath(c2) /\ WorkDir(c1) # WorkDir(c2)

\* The external renderer step of a call failed: the tool is missing, it
\* exited non-zero, it timed out or it left no output.
RendererFailed(c) ==
    outcome[c] \in {"tool_missing", "command_missing", "nonzero", "timeout", "no_output"}

\* C8: a call whose external renderer step failed ends in an error reported
\* to the caller, having run the external renderer at most once and no other
\* backend in its place.
C8_NoRetryNoSubstitution ==
    \A c \in Renders :
        pc[c] = "done" /\ RendererFailed(c) =>
            result[c].status = "error" /\ invocations[c] <= 1

-----------------------------------------------------------------------------
(* Claims about the RenderCV education entries                              *)

EducationOf(rd) == Get(rd, "education", << >>)

\* The education entries of a RenderCV document.
RenderCVEducation(doc) == Get(doc.cv.sections, "education", << >>)

\* An education entry with its required fields: an institution, and an area
\* given by its field, area or degree.
HasRequiredFields(edu) ==
    /\ Get(edu, "institution", << >>) # << >>
    /\ \/ Get(edu, "field", << >>) # << >>
       \/ Get(edu, "area", << >>) # << >>
       \/ Get(edu, "degree", << >>) # << >>

\* The positions of the input entries that have their required fields.
KeptPositions(education) == {i \in 1..Len(education) : HasRequiredFields(education[i])}

\* C11: every education entry of the RenderCV document has a non-empty
\* institution and a non-empty area, and the input entries without an
\* institution or without any of field, area, degree contribute no entry: the
\* document holds one entry per input entry that has its required fields.
C11_EducationDropPolicy ==
    output.op = "rendercv" =>
        LET emitted == RenderCVEducation(output.doc)
        IN  /\ \A i \in 1..Len(emitted) :
                  emitted[i].institution # << >> /\ emitted[i].area # << >>
            /\ Len(emitted) = Cardinality(KeptPositions(EducationOf(resume_data)))
            /\ \A i \in 1..Len(emitted) :
                  \E j \in KeptPositions(EducationOf(resume_data)) :
                      emitted[i].institution = resume_data.education[j].institution

\* A RenderCV document made from a record with an entry that is dropped and
\* an entry that is kept.
C11_Witness ==
    /\ output.op = "rendercv"
    /\ \E i, j \in 1..Len(EducationOf(resume_data)) :
          /\ ~HasRequiredFields(resume_data.education[i])
          /\ HasRequiredFields(resume_data.education[j])
    /\ Len(RenderCVEducation(output.doc)) = 1

-----------------------------------------------------------------------------
(* Claims about the flat markdown                                           *)

\* An experience entry with position, company, duration and accomplishments,
\* without role summaries and without selected_* keys.
PlainExperience(exp) ==
    /\ Get(exp, "position", << >>) # << >>
    /\ Get(exp, "company", << >>) # << >>
    /\ Get(exp, "duration", << >>) # << >>
    /\ Get(exp, "accomplishments", << >>) # << >>
    /\ Get(exp, "role_summaries", << >>) = << >>
    /\ "selected_role_summary" \notin DOMAIN exp
    /\ "selected_accomplishments" \notin DOMAIN exp

\* '### <position> | <company> | <duration>'
ExperienceHeader(exp) ==
    <<"#", "#", "#", " ">> \o exp["position"] \o <<" ", "|", " ">> \o exp["company"] \o <<" ", "|", " ">> \o exp["duration"]

\* line is a whole line of doc that starts at position i.
LineAt(doc, i, line) ==
    /\ i + Len(line) - 1 <= Len(doc)
    /\ SubSeq(doc, i, i + Len(line) - 1) = line
    /\ i = 1 \/ doc[i - 1] = "\n"
    /\ i + Len(line) - 1 = Len(doc) \/ doc[i + Len(line)] = "\n"

\* The line at position i is followed, after blank lines only, by a bullet line.
BulletFollows(doc, i, line) ==
    \E b \in BulletStarts(doc) :
        /\ b > i + Len(line) - 1
        /\ \A m \in (i + Len(line))..(b - 1) : doc[m] = "\n"

\* The accomplishments of every experience of a record, in order.
AllAccomplishments(rd) ==
    Concat([i \in 1..Len(ExperienceOf(rd)) |-> rd.experience[i].accomplishments])

\* C12: the markdown of a record whose experience entries have position,
\* company, duration and accomplishments, no role summaries and no selected_*
\* keys has a '## Professional Experience' section, in it for every entry the
\* header '### <position> | <company> | <duration>' followed by bullet lines
\* with no role-summary line in between, and as its bullet lines exactly the
\* accomplishments in input order.
C12_MarkdownWithoutOverrides ==
    (/\ output.op \in {"matcher_markdown", "theme_markdown"}
     /\ ExperienceOf(resume_data) # << >>
     /\ \A k \in 1..Len(ExperienceOf(resume_data)) : PlainExperience(resume_data.experience[k]))
    =>
    /\ \E i \in 1..Len(output.doc) : LineAt(output.doc, i, <<"#", "#", " ", "P", "r", "o", "f", "e", "s", "s", "i", "o", "n", "a", "l", " ",
      "E", "x", "p", "e", "r", "i", "e", "n", "c", "e">>)
    /\ \A k \in 1..Len(resume_data.experience) :
          \E i \in 1..Len(output.doc) :
              /\ LineAt(output.doc, i, ExperienceHeader(resume_data.experience[k]))
              /\ BulletFollows(output.doc, i, ExperienceHeader(resume_data.experience[k]))
    /\ MarkdownBullets(output.doc) = AllAccomplishments(resume_data)

\* The positions where a '## ' section header line starts.
SectionStarts(doc) ==
    {i \in 1..(Len(doc) - 2) :
        /\ SubSeq(doc, i, i + 2) = <<"#", "#", " ">>
        /\ i = 1 \/ doc[i - 1] = "\n"}

\* The position after the section that starts at i: the next section header
\* or the end of the document.
SectionEnd(doc, i) ==
    IF \E j \in SectionStarts(doc) : j > i
    THEN CHOOSE j \in SectionStarts(doc) :
             j > i /\ \A m \in SectionStarts(doc) : m > i => j <= m
    ELSE Len(doc) + 1

\* Some line after the header line at i and before the next header is not blank.
SectionHasContent(doc, i) ==
    \E m \in LineEnd(doc, i)..(SectionEnd(doc, i) - 1) : doc[m] \notin Whitespace

\* C13: in the flat markdown of every record, each '## ' section header is
\* followed by at least one line of content before the next '## ' header or
\* the end of the document.
C13_NoEmptySectionHeaders ==
    output.op \in {"matcher_markdown", "theme_markdown"} =>
        \A i \in SectionStarts(output.doc) : SectionHasContent(output.doc, i)

-----------------------------------------------------------------------------
(* The date parsers, run on their own *)

sPresent == <<"p", "r", "e", "s", "e", "n", "t">>
sSep == <<" ", "-", " ">>

\* The spellings the parsers are given: every key of the month table, a few
\* words that are no month, each in four letter cases.
MonthWords == DOMAIN month_mapping \cup {<<"s", "u", "m", "m", "e", "r">>, <<"j", "a", "n", "u">>, <<"j", "a">>}
Upper(s) == [i \in 1..Len(s) |-> UpperChar(s[i])]
Cased(w) == {w, Upper(w), Title(w), <<w[1]>> \o Upper(Tail(w))}
Years == {<<"2", "0", "2", "0">>, <<"1", "9", "9", "9">>}

MonthYearInputs == {c \o <<" ">> \o y : c \in UNION {Cased(w) : w \in MonthWords}, y \in Years}

SingleDateInputs ==
    MonthYearInputs \cup Years
    \cup {<<"2", "0", "2", "0", "-", "0", "1">>, <<"2", "0", "2", "0", "-", "2", "1">>, <<"2", "0", "2", "0", "-", "0", "1", "-", "1", "5">>, <<"g", "a", "r", "b", "a", "g", "e">>, <<"S", "u", "m", "m", "e", "r", " ", "2", "0", "2", "0">>, <<"2", "0", "-", "2", "1">>,
          <<"2", "0", "2", "0", "-", "2", "0", "2", "1">>, <<"0", "3", "-", "2", "0", "2", "0">>, <<"5", "-", "2", "0", "2", "0">>, <<"Q", "1", "-", "2", "0", "2", "0">>, <<"2", "0", "2", "0", " ", "J", "a", "n">>, <<"J", "a", "n", " ", "2", "0">>, <<"J", "a", "n">>,
          <<" ", "2", "0", "2", "0", " ">>, <<"J", "a", "n", " ", " ", "2", "0", "2", "0">>, <<"J", "a", "n", " ", "2", "0", "2", "0", " ", "e", "x", "t", "r", "a">>, <<"-">>, << >>, <<"p", "r", "e", "s", "e", "n", "t">>, <<"2", "0", "2", "0", "1">>,
          <<"2", "0", "2">>, <<"J", "a", "n", "-", "2", "0", "2", "0">>, <<"2", "0", "2", "0", "/", "0", "1">>, <<" ", "M", "a", "r", " ", "2", "0", "2", "1", "\n">>}

EndInputs ==
    UNION {Cased(w) : w \in PresentWords}
    \cup {<<" ", "P", "r", "e", "s", "e", "n", "t", " ">>, <<"M", "a", "r", " ", "2", "0", "2", "1">>, <<"2", "0", "2", "1">>, <<"s", "o", "o", "n">>, <<"p", "r", "e", "s", "e", "n", "t", "l", "y">>, << >>}

DurationInputs ==
    {s \o sSep \o e : s \in {<<"J", "a", "n", " ", "2", "0", "2", "0">>, <<"2", "0", "1", "9">>, <<"x">>}, e \in EndInputs}
    \cup {<<"J", "a", "n", " ", "2", "0", "2", "0", " ", "-", "P", "r", "e", "s", "e", "n",
      "t">>, <<"J", "a", "n", " ", "2", "0", "2", "0", " ", "-", " ", "M", "a", "r", " ", "2",
      "0", "2", "1", " ", "-", " ", "P", "r", "e", "s", "e", "n", "t">>, <<"J", "a", "n", " ", "2", "0", "2", "0", "-", "P", "r", "e", "s", "e", "n", "t">>}

GraduationInputs ==
    {<<"2", "0", "1", "6", " ", "-", " ", "2", "0", "2", "0">>, <<"2", "0", "1", "6", " ", "-", " ", "p", "r", "e", "s", "e", "n", "t">>, <<"2", "0", "1", "6", " ", "-", " ", "C", "u", "r", "r", "e", "n", "t">>, <<"2", "0", "1", "6", " ", "-", " ", "N", "O", "W">>, <<"M", "a", "y", " ", "2", "0", "2", "0">>,
     <<"2", "0", "1", "6", "-", "2", "0", "2", "0">>, <<"S", "e", "p", " ", "2", "0", "1", "6", " ", "-", " ", "M", "a", "y", " ", "2",
      "0", "2", "0">>, <<"E", "x", "p", "e", "c", "t", "e", "d", " ", "2", "0", "2", "5">>, <<"2", "0", "1", "6", " ", "-", " ", " ", "2", "0", "2", "0", " ">>, <<"1", "0", "0", "0">>,
     <<"0", "0", "0", "3">>, <<"2", "0", "1", "6", " ", "-", " ", "2", "0">>, <<"1", "6", " ", "-", " ", "2", "0", "2", "0">>, <<"2", "0", "2", "0", " ", "-", " ">>}

DateInputs == SingleDateInputs \cup DurationInputs \cup GraduationInputs

DateInit ==
    /\ date_input \in DateInputs
    /\ parsed = [op |-> "none"]
    /\ EscIdle
    /\ XfIdle
    /\ RenderIdle
    /\ TailorIdle

\* RenderCVTransformer._normalize_date(date_input)
NormalizeDate ==
    /\ parsed' = [op |-> "_normalize_date", value |-> _normalize_date(date_input)]
    /\ UNCHANGED <<date_input, escVars, xfVars, renderVars, tailorVars>>

\* RenderCVTransformer._parse_duration(date_input)
ParseDuration ==
    /\ parsed' = [op |-> "_parse_duration",
                  start_date |-> _parse_duration(date_input)[1],
                  end_date |-> _parse_duration(date_input)[2]]
    /\ UNCHANGED <<date_input, escVars, xfVars, renderVars, tailorVars>>

\* RenderCVTransformer._parse_education_dates(date_input)
ParseEducationDates ==
    /\ parsed' = [op |-> "_parse_education_dates",
                  start_date |-> _parse_education_dates(date_input)[1],
                  end_date |-> _parse_education_dates(date_input)[2]]
    /\ UNCHANGED <<date_input, escVars, xfVars, renderVars, tailorVars>>

\* JSONResumeTransformer._parse_start_date(date_input), _parse_end_date(date_input)
JsonParseDuration ==
    /\ parsed' = [op |-> "json_parse_duration",
                  start_date |-> _parse_start_date(date_input),
                  end_date |-> _parse_end_date(date_input)]
    /\ UNCHANGED <<date_input, escVars, xfVars, renderVars, tailorVars>>

DateNext == NormalizeDate \/ ParseDuration \/ ParseEducationDates \/ JsonParseDuration

SpecDates == DateInit /\ [][DateNext]_vars

-----------------------------------------------------------------------------
(* Claims about the date normalizer *)

\* The twelve months of the calendar, in order.
MonthNames ==
    <<<<"j", "a", "n", "u", "a", "r", "y">>, <<"f", "e", "b", "r", "u", "a", "r", "y">>, <<"m", "a", "r", "c", "h">>, <<"a", "p", "r", "i", "l">>, <<"m", "a", "y">>, <<"j", "u", "n", "e">>, <<"j", "u", "l", "y">>, <<"a", "u", "g", "u", "s", "t">>,
      <<"s", "e", "p", "t", "e", "m", "b", "e", "r">>, <<"o", "c", "t", "o", "b", "e", "r">>, <<"n", "o", "v", "e", "m", "b", "e", "r">>, <<"d", "e", "c", "e", "m", "b", "e", "r">>>>

\* The 2-digit number of month m.
TwoDigits(m) == IF m < 10 THEN <<"0">> \o StrOf(m) ELSE StrOf(m)

FourDigits(s) == Len(s) = 4 /\ \A i \in 1..4 : s[i] \in Digits
TwoDigitString(s) == Len(s) = 2 /\ \A i \in 1..2 : s[i] \in Digits

\* w is the full name or the 3-letter abbreviation of month m, in any letter case.
NamesMonth(w, m) == Lower(w) \in {MonthNames[m], SubSeq(MonthNames[m], 1, 3)}

\* s is '<Month> <Y>' for month m: a name of m, one space, a 4-digit year.
MonthYearForm(s, m) ==
    /\ Len(s) >= 8
    /\ s[Len(s) - 4] = " "
    /\ FourDigits(SubSeq(s, Len(s) - 3, Len(s)))
    /\ NamesMonth(SubSeq(s, 1, Len(s) - 5), m)

\* YYYY-MM and YYYY-MM-DD
YearMonthForm(s) ==
    Len(s) = 7 /\ FourDigits(SubSeq(s, 1, 4)) /\ s[5] = "-" /\ TwoDigitString(SubSeq(s, 6, 7))
YearMonthDayForm(s) ==
    /\ Len(s) = 10
    /\ YearMonthForm(SubSeq(s, 1, 7))
    /\ s[8] = "-"
    /\ TwoDigitString(SubSeq(s, 9, 10))

\* C14: normalizing '<Month> <Y>', for every month name (full or 3-letter
\* abbreviation, in any letter case) and every 4-digit year Y, returns 'Y-MM'
\* with MM the 2-digit number of the month; normalizing a bare 4-digit year
\* or a string in YYYY-MM or YYYY-MM-DD form returns it unchanged.
C14_MonthMapping ==
    parsed.op = "_normalize_date" =>
        /\ \A m \in 1..12 :
              MonthYearForm(date_input, m) =>
                  parsed.value = SubSeq(date_input, Len(date_input) - 3, Len(date_input))
                                     \o <<"-">> \o TwoDigits(m)
        /\ (FourDigits(date_input) \/ YearMonthForm(date_input) \/ YearMonthDayForm(date_input))
               => parsed.value = date_input

\* 'SEPTEMBER 1999' has been normalized to '1999-09'.
C14_Witness ==
    /\ parsed.op = "_normalize_date"
    /\ date_input = <<"S", "E", "P", "T", "E", "M", "B", "E", "R", " ", "1", "9", "9", "9">>
    /\ parsed.value = <<"1", "9", "9", "9", "-", "0", "9">>

\* w spells month m: its full name or an abbreviation of at least three
\* letters, in any letter case.
SpellsMonth(w, m) ==
    /\ Len(w) >= 3
    /\ Len(w) <= Len(MonthNames[m])
    /\ Lower(w) = SubSeq(MonthNames[m], 1, Len(w))

\* The part of a string before its first dash.
BeforeFirstDash(t) ==
    SubSeq(t, 1, (CHOOSE i \in 1..Len(t) : t[i] = "-" /\ \A j \in 1..(i - 1) : t[j] # "-") - 1)

\* The dates the normalization rules derive from a string: the trimmed string
\* itself when it is YYYY, YYYY-MM or YYYY-MM-DD; 'Y-MM' when it starts with a
\* month and a 4-digit year Y; the 4-digit year before its first dash, or
\* '20' and the 2 digits before its first dash.
DerivableDates(s) ==
    LET t == Strip(s)
        tokens == SplitWS(t)
    IN  (IF FourDigits(t) \/ YearMonthForm(t) \/ YearMonthDayForm(t) THEN {t} ELSE {})
        \cup
        (IF Len(tokens) >= 2 /\ FourDigits(tokens[2])
         THEN {tokens[2] \o <<"-">> \o TwoDigits(m) : m \in {n \in 1..12 : SpellsMonth(tokens[1], n)}}
         ELSE {})
        \cup
        (IF \E i \in 1..Len(t) : t[i] = "-"
         THEN IF FourDigits(BeforeFirstDash(t)) THEN {BeforeFirstDash(t)}
              ELSE IF TwoDigitString(BeforeFirstDash(t)) THEN {<<"2", "0">> \o BeforeFirstDash(t)}
              ELSE {}
         ELSE {})

-----------------------------------------------------------------------------
(* Claims about the duration and graduation parsers *)

OpenEndWords == {<<"p", "r", "e", "s", "e", "n", "t">>, <<"c", "u", "r", "r", "e", "n", "t">>, <<"n", "o", "w">>}

\* The positions of the separator ' - ' in a string.
SeparatorAt(s) == {i \in 1..(Len(s) - 2) : SubSeq(s, i, i + 2) = sSep}

\* The components of '<start> - <end>', a string with one separator.
StartComponent(s) == SubSeq(s, 1, (CHOOSE i \in SeparatorAt(s) : TRUE) - 1)
EndComponent(s) == SubSeq(s, (CHOOSE i \in SeparatorAt(s) : TRUE) + 3, Len(s))

\* s is '<start> - <end>' and its end component, trimmed and lower-cased, is
\* present, current or now.
OpenEnded(s) ==
    /\ Cardinality(SeparatorAt(s)) = 1
    /\ Lower(Strip(EndComponent(s))) \in OpenEndWords

\* C16: for a duration '<start> - <end>' whose end component is present,
\* current or now (trimmed, case-insensitive), the duration parser of the
\* RenderCV transformer and of the JSON resume transformer returns the
\* literal 'present' as the end date.
C16_OpenEndIsPresent ==
    (parsed.op \in {"_parse_duration", "json_parse_duration"} /\ OpenEnded(date_input))
        => parsed.end_date = sPresent

\* s is 'Y1 - <end>' with a 4-digit year Y1.
YearRange(s) == Cardinality(SeparatorAt(s)) = 1 /\ FourDigits(StartComponent(s))

\* C17: a graduation string that is a single 4-digit year Y yields start
\* '(Y-4)-09' and end 'Y-05'; a graduation string 'Y1 - Y2' with 4-digit years
\* yields start 'Y1-09' and end 'Y2-05', and end 'present' when its second
\* component is present, current or now.
C17_GraduationPolicy ==
    parsed.op = "_parse_education_dates" =>
        /\ FourDigits(date_input) =>
              /\ parsed.start_date = StrOf(IntOf(date_input) - 4) \o <<"-", "0", "9">>
              /\ parsed.end_date = date_input \o <<"-", "0", "5">>
        /\ (YearRange(date_input) /\ FourDigits(EndComponent(date_input))) =>
              /\ parsed.start_date = StartComponent(date_input) \o <<"-", "0", "9">>
              /\ parsed.end_date = EndComponent(date_input) \o <<"-", "0", "5">>
        /\ (YearRange(date_input) /\ OpenEnded(date_input)) =>
              /\ parsed.start_date = StartComponent(date_input) \o <<"-", "0", "9">>
              /\ parsed.end_date = sPresent

\* The graduation year '2020' has been parsed to ('2016-09', '2020-05').
C17_Witness ==
    /\ parsed.op = "_parse_education_dates"
    /\ date_input = <<"2", "0", "2", "0">>
    /\ parsed.start_date = <<"2", "0", "1", "6", "-", "0", "9">>
    /\ parsed.end_date = <<"2", "0", "2", "0", "-", "0", "5">>

-----------------------------------------------------------------------------
(* Claims about repeated and ordered transformation *)

\* C18: two successive calls of transform_to_rendercv on the same record
\* object, with the same theme and the same current date, return structurally
\* equal documents.
C18_RepeatedRenderCVEqual ==
    [][(/\ output.op = "rendercv"
        /\ TransformToRenderCV
        /\ output'.doc.design = output.doc.design)
       => output'.doc = output.doc]_vars

\* C19: the work entries of the JSON resume are in the order of the input
\* experience sequence, each with the resolved accomplishments of its
\* experience as highlights, and the project entries are in input order, each
\* with the technologies as keywords and the achievements as highlights:
\* nothing reordered, dropped or duplicated.
C19_JsonOrderPreserved ==
    output.op = "json_resume" =>
        /\ Len(output.doc.work) = Len(ExperienceOf(resume_data))
        /\ \A i \in 1..Len(output.doc.work) :
              /\ output.doc.work[i].name = Get(resume_data.experience[i], "company", << >>)
              /\ output.doc.work[i].position = Get(resume_data.experience[i], "position", << >>)
              /\ output.doc.work[i].highlights
                     = resolve_multi(resume_data.experience[i], "selected_accomplishments",
                                     "accomplishments")
        /\ Len(output.doc.projects) = Len(ProjectsOf(resume_data))
        /\ \A i \in 1..Len(output.doc.projects) :
              /\ output.doc.projects[i].name = Get(resume_data.projects[i], "name", << >>)
              /\ output.doc.projects[i].keywords = Get(resume_data.projects[i], "technologies", << >>)
              /\ output.doc.projects[i].highlights = Get(resume_data.projects[i], "achievements", << >>)

\* A JSON resume made from two experiences with different accomplishments.
C19_Witness ==
    /\ output.op = "json_resume"
    /\ Len(ExperienceOf(resume_data)) = 2
    /\ Len(output.doc.work[1].highlights) >= 2
    /\ Len(output.doc.work[2].highlights) >= 2
    /\ output.doc.work[1].highlights # output.doc.work[2].highlights

-----------------------------------------------------------------------------
(* Claims about the errors of the render invocation adapters *)

\* The external renderer of a call is absent: found missing by the
\* constructor, or missing when the render command is run.
ToolMissing(c) == outcome[c] \in {"tool_missing", "command_missing"}

\* C20: a call whose external renderer is absent ends in an error that
\* reaches the caller labelled as a missing tool, not as a compilation
\* failure and not replaced by another result.
C20_MissingToolIsOwnError ==
    \A c \in Renders :
        pc[c] = "done" /\ ToolMissing(c) =>
            result[c].status = "error" /\ result[c].message = "not found"

\* C21: a call whose external process exited with code 0 without writing its
\* output file ends in an error that carries a listing of the files of the
\* working location.
C21_AbsentOutputListsFiles ==
    \A c \in Renders :
        pc[c] = "done" /\ outcome[c] = "no_output" =>
            result[c].status = "error" /\ result[c].listed

-----------------------------------------------------------------------------
(* Further claims about the escaper *)

\* s holds a backslash or a double quote.
HasSpecial(s) == \E i \in 1..Len(s) : s[i] \in {BS, DQ}

\* C22: for a string with a backslash or a double quote, escaping the escaped
\* string gives something other than the escaped string; for a string with
\* neither, escaping returns the string itself.
C22_EscapeNotIdempotent ==
    /\ esc_pc = "twice" /\ HasSpecial(text) => twice # escaped
    /\ esc_pc # "start" /\ ~HasSpecial(text) => escaped = text

\* A string with a double quote and no backslash has been escaped twice.
C22_Witness ==
    /\ esc_pc = "twice"
    /\ \E i \in 1..Len(text) : text[i] = DQ
    /\ \A i \in 1..Len(text) : text[i] # BS
    /\ twice # escaped

\* ---------------------------------------------------------------------
\* Tailoring: the "Generate Best Match Resume" handler of the Streamlit
\* app and the JobMatcher it calls.  The session holds the Resume
\* Record (resume_data), the reviewed AI-enhanced texts
\* (approved_content) and the last selection (selected_content).
\* ---------------------------------------------------------------------

\* Most runs of the handler in one session.
MaxTailorings == 2

sS3 == <<"s", "3">>
sN1 == <<"n", "1">>
sN2 == <<"n", "2">>
sN3 == <<"n", "3">>
sN4 == <<"n", "4">>
sLocation == <<"N", "Y">>

\* A str and a list of str are both values a Python name can hold; the
\* elements of the selected role_summaries and descriptions carry their type.
PyStr(s) == [type |-> "str", value |-> s]
PyList(l) == [type |-> "list", value |-> l]
PyTruthy(v) == v.value # << >>

SelectionError == <<"E", "r", "r", "o", "r", " ", "w", "h", "i", "l", "e", " ", "s", "e", "l", "e",
      "c", "t", "i", "n", "g", " ", "a", "c", "c", "o", "m", "p", "l", "i", "s",
      "h", "m", "e", "n", "t", "s", ".", " ", "P", "l", "e", "a", "s", "e", " ",
      "t", "r", "y", " ", "a", "g", "a", "i", "n", ".">>

TailorExperience(rs, acc) ==
    [position |-> sEngineer, company |-> sAcme, duration |-> sDuration,
     location |-> sLocation, role_summaries |-> rs, accomplishments |-> acc]

TailorProject(ds) == [name |-> sProj, descriptions |-> ds]

TailorBase ==
    [contact |-> [name |-> sName, email |-> sMail],
     summary |-> [sentences |-> <<sS1, sS2>>],
     experience |-> <<TailorExperience(<<sR1>>, <<sA1, sA2>>)>>,
     projects |-> <<TailorProject(<<sD1>>)>>,
     skills |-> << >>,
     education |-> << >>]

\* Session records: one section varies at a time; a record may lack a section.
TailorRecords ==
    {TailorBase}
    \cup {[k \in DOMAIN TailorBase \ {"summary"} |-> TailorBase[k]]}
    \cup {SetKey(TailorBase, "summary", [sentences |-> ss]) :
            ss \in {<< >>, <<sS1, sS2, sS3>>}}
    \cup {SetKey(TailorBase, "experience", es) :
            es \in {<< >>,
                    <<TailorExperience(<< >>, << >>)>>,
                    <<TailorExperience(<<sR1, sR2>>, <<sA1, sA2>>)>>,
                    <<TailorExperience(<<sR1>>, <<sA1, sA2, sA3>>)>>,
                    <<TailorExperience(<<sR1, sR2>>, <<sA1, sA2, sA3>>)>>,
                    <<TailorExperience(<<sR1, sR2>>, <<sA1>>),
                      TailorExperience(<<sR2>>, <<sA1, sA2, sA3>>)>>}}
    \cup {SetKey(TailorBase, "projects", ps) :
            ps \in {<< >>, <<TailorProject(<< >>)>>, <<TailorProject(<<sD1, sD2>>)>>}}

\* approved_content as the review tabs build it: summary_sentences, and
\* experience / projects as dicts keyed by the entry's index (0-based),
\* held as insertion-ordered items.
ApprovedInputs ==
    {<< >>,
     [summary_sentences |-> <<sN1>>],
     [summary_sentences |-> <<sN1, sS1, sS2>>],
     [summary_sentences |-> << >>,
      experience |-> <<[k |-> 0, v |-> [role_summaries |-> <<sN2, sR1>>,
                                         accomplishments |-> <<sN3, sA1, sA2>>]]>>],
     [experience |-> <<[k |-> 0, v |-> [role_summaries |-> << >>,
                                         accomplishments |-> <<sN3>>]]>>],
     [experience |-> <<[k |-> 1, v |-> [role_summaries |-> <<sN2>>,
                                         accomplishments |-> << >>]]>>],
     [projects |-> <<[k |-> 0, v |-> [name |-> sProj, descriptions |-> <<sN4, sD1>>]]>>],
     [projects |-> <<[k |-> 1, v |-> [name |-> sProj, descriptions |-> <<sN4>>]]>>]}

\* enhanced_data['experience'][exp_idx][field] = approved_exp[field] for
\* every approved index inside the list and every truthy approved field
ApprovedEntries(entries, items, fields) ==
    [i \in 1..Len(entries) |->
        IF \E n \in 1..Len(items) : items[n].k = i - 1
        THEN LET approved == ItemsGet(items, i - 1, << >>)
                 replaced == {f \in fields : Truthy(Get(approved, f, << >>))}
             IN [f \in DOMAIN entries[i] \cup replaced |->
                    IF f \in replaced THEN approved[f] ELSE entries[i][f]]
        ELSE entries[i]]

\* st.session_state.resume_data after _create_enhanced_resume_data_structure:
\* enhanced_data is a shallow copy (dict.copy), so the summary dict and the
\* experience and project entries it assigns into are the session's own.
SessionAfterEnhanced(rd, approved) ==
    LET sentences == Get(approved, "summary_sentences", << >>)
        s1 == IF Truthy(sentences) /\ "summary" \in DOMAIN rd
              THEN SetKey(rd, "summary", SetKey(rd.summary, "sentences", sentences))
              ELSE rd
        s2 == IF "experience" \in DOMAIN approved /\ "experience" \in DOMAIN s1
              THEN SetKey(s1, "experience",
                          ApprovedEntries(s1.experience, approved.experience,
                                          {"role_summaries", "accomplishments"}))
              ELSE s1
    IN IF "projects" \in DOMAIN approved /\ "projects" \in DOMAIN s2
       THEN SetKey(s2, "projects",
                   ApprovedEntries(s2.projects, approved.projects, {"descriptions"}))
       ELSE s2

\* app._create_enhanced_resume_data_structure: the dict it returns
_create_enhanced_resume_data_structure(rd, approved) ==
    LET sentences == Get(approved, "summary_sentences", << >>)
        shared == SessionAfterEnhanced(rd, approved)
    IN IF Truthy(sentences) /\ "summary" \notin DOMAIN rd
       THEN SetKey(shared, "summary", [sentences |-> sentences])
       ELSE shared

\* Replies of the language-model service.  A single-choice call parses the
\* whole reply with int(): it is a number, some other text (int raises), or
\* the request itself raised.
BestReplies ==
    {[kind |-> "number", n |-> n] : n \in 1..3}
    \cup {[kind |-> "text", n |-> 0], [kind |-> "raised", n |-> 0]}

\* A multiple-choice call keeps the comma-separated tokens that are digits:
\* nums are those tokens (none for a reply without numbers).
MultiReplies ==
    {[kind |-> "tokens", nums |-> ns] :
        ns \in {<< >>, <<1>>, <<3, 1>>, <<2, 2>>, <<4>>, <<1, 4>>, <<1, 2, 3>>}}
    \cup {[kind |-> "raised", nums |-> << >>]}

\* No call was made, so no reply exists.
NoCall == [kind |-> "none"]

\* [options[i] for i in selected_numbers if 0 <= i < len(options)]
RECURSIVE SelectedOptions(_, _)
SelectedOptions(options, nums) ==
    IF nums = << >> THEN << >>
    ELSE (IF Head(nums) - 1 >= 0 /\ Head(nums) - 1 < Len(options)
          THEN <<options[Head(nums)]>> ELSE << >>)
         \o SelectedOptions(options, Tail(nums))

\* sentences[:2]
FirstTwo(xs) == SubSeq(xs, 1, IF Len(xs) < 2 THEN Len(xs) ELSE 2)

\* JobMatcher._select_summary_sentences
_select_summary_sentences(summary_data, reply) ==
    LET sentences == Get(summary_data, "sentences", << >>)
    IN IF ~Truthy(sentences) THEN [sentences |-> << >>]
       ELSE IF Len(sentences) <= 2 THEN [sentences |-> sentences]
       ELSE IF reply.kind = "raised" THEN [sentences |-> FirstTwo(sentences)]
       ELSE LET selected_sentences == SelectedOptions(sentences, reply.nums)
            IN [sentences |-> IF ~Truthy(selected_sentences)
                              THEN FirstTwo(sentences) ELSE selected_sentences]

\* JobMatcher._ai_select_best_option: a str, or on a number out of
\* range or any exception a list holding the error text
_ai_select_best_option(options, reply) ==
    IF ~Truthy(options) THEN PyStr(<< >>)
    ELSE IF Len(options) = 1 THEN PyStr(options[1])
    ELSE IF reply.kind = "number" /\ reply.n - 1 >= 0 /\ reply.n - 1 < Len(options)
         THEN PyStr(options[reply.n])
         ELSE PyList(<<SelectionError>>)

\* JobMatcher._ai_select_multiple_options (min_selections = 2)
_ai_select_multiple_options(options, reply) ==
    IF ~Truthy(options) THEN << >>
    ELSE IF Len(options) <= 2 THEN options
    ELSE IF reply.kind = "raised" THEN <<SelectionError>>
    ELSE LET selected_options == SelectedOptions(options, reply.nums)
         IN IF ~Truthy(selected_options) THEN <<SelectionError>> ELSE selected_options

\* The single choice among role summaries or descriptions, as both
\* _select_experience_content and _select_project_content make it
BestOf(candidates, reply) ==
    IF ~Truthy(candidates) THEN << >>
    ELSE IF Len(candidates) = 1 THEN <<PyStr(candidates[1])>>
    ELSE LET best == _ai_select_best_option(candidates, reply)
         IN IF PyTruthy(best) THEN <<best>> ELSE << >>

\* JobMatcher._select_experience_content; roles[i] and accs[i] are the
\* replies to the calls made for entry i
_select_experience_content(experience_list, roles, accs) ==
    [i \in 1..Len(experience_list) |->
        LET exp == experience_list[i]
            accomplishments == Get(exp, "accomplishments", << >>)
        IN [position |-> Get(exp, "position", << >>),
            company |-> Get(exp, "company", << >>),
            duration |-> Get(exp, "duration", << >>),
            location |-> Get(exp, "location", << >>),
            role_summaries |-> BestOf(Get(exp, "role_summaries", << >>), roles[i]),
            accomplishments |->
                IF ~Truthy(accomplishments) THEN << >>
                ELSE IF Len(accomplishments) <= 2 THEN accomplishments
                ELSE _ai_select_multiple_options(accomplishments, accs[i])]]

\* JobMatcher._select_project_content
_select_project_content(projects_list, descs) ==
    [i \in 1..Len(projects_list) |->
        LET proj == projects_list[i]
        IN [name |-> Get(proj, "name", << >>),
            url |-> Get(proj, "url", << >>),
            descriptions |-> BestOf(Get(proj, "descriptions", << >>), descs[i]),
            technologies |-> Get(proj, "technologies", << >>),
            achievements |-> Get(proj, "achievements", << >>)]]

\* JobMatcher.match_resume_to_job
match_resume_to_job(rd, replies) ==
    [k \in {"contact", "education", "certifications", "achievements"}
           \cup (DOMAIN rd \cap {"summary", "experience", "projects", "skills"}) |->
        CASE k = "summary" -> _select_summary_sentences(rd.summary, replies.summary)
          [] k = "experience" ->
                _select_experience_content(rd.experience, replies.roles, replies.accs)
          [] k = "projects" -> _select_project_content(rd.projects, replies.descs)
          [] OTHER -> Get(rd, k, << >>)]

\* The replies the calls of one match_resume_to_job(rd, ...) receive: one
\* per call made, none where the code decides without the service.
EntryReplies(entries, field, atLeast, replySet) ==
    {f \in [1..Len(entries) -> replySet \cup {NoCall}] :
        \A i \in 1..Len(entries) :
            (f[i] = NoCall) <=> Len(Get(entries[i], field, << >>)) < atLeast}

Replies(rd) ==
    [summary : IF Len(Get(Get(rd, "summary", << >>), "sentences", << >>)) > 2
               THEN MultiReplies ELSE {NoCall},
     roles : EntryReplies(Get(rd, "experience", << >>), "role_summaries", 2, BestReplies),
     accs : EntryReplies(Get(rd, "experience", << >>), "accomplishments", 3, MultiReplies),
     descs : EntryReplies(Get(rd, "projects", << >>), "descriptions", 2, BestReplies)]

TailorInit ==
    /\ resume_data \in TailorRecords
    /\ approved_content \in ApprovedInputs
    /\ enhanced_data = << >>
    /\ selected_content = << >>
    /\ tailorings = 0
    /\ output = [op |-> "none"] /\ calls = 0 /\ today = << >>
    /\ EscIdle
    /\ RenderIdle
    /\ DateIdle

\* The user approves other enhanced texts in the review tabs.
Approve ==
    /\ tailorings < MaxTailorings
    /\ approved_content' \in ApprovedInputs \ {approved_content}
    /\ UNCHANGED <<resume_data, enhanced_data, selected_content, tailorings>>
    /\ UNCHANGED <<output, calls, today>>
    /\ UNCHANGED escVars
    /\ UNCHANGED renderVars
    /\ UNCHANGED dateVars

\* The "Generate Best Match Resume" button, shown once there is approved
\* content: the enhanced structure is created and matched against the job
\* description.
GenerateBestMatch ==
    /\ tailorings < MaxTailorings
    /\ DOMAIN approved_content # {}
    /\ LET enhanced_resume_data ==
               _create_enhanced_resume_data_structure(resume_data, approved_content)
       IN /\ enhanced_data' = enhanced_resume_data
          /\ \E replies \in Replies(enhanced_resume_data) :
                selected_content' = match_resume_to_job(enhanced_resume_data, replies)
    /\ resume_data' = SessionAfterEnhanced(resume_data, approved_content)
    /\ tailorings' = tailorings + 1
    /\ UNCHANGED approved_content
    /\ UNCHANGED <<output, calls, today>>
    /\ UNCHANGED escVars
    /\ UNCHANGED renderVars
    /\ UNCHANGED dateVars

TailorNext == Approve \/ GenerateBestMatch

SpecTailor == TailorInit /\ [][TailorNext]_vars

\* ---------------------------------------------------------------------
\* Claims about tailoring
\* ---------------------------------------------------------------------

\* The candidate sequences of a Resume Record: its summary sentences, each
\* experience's role_summaries and accomplishments, each project's descriptions.
Candidates(rd) ==
    [sentences |-> Get(Get(rd, "summary", << >>), "sentences", << >>),
     experience |-> [i \in 1..Len(Get(rd, "experience", << >>)) |->
                        [role_summaries |-> Get(rd.experience[i], "role_summaries", << >>),
                         accomplishments |-> Get(rd.experience[i], "accomplishments", << >>)]],
     projects |-> [i \in 1..Len(Get(rd, "projects", << >>)) |->
                        Get(rd.projects[i], "descriptions", << >>)]]

\* C23: no step of a session (approving enhanced texts, creating the
\* enhanced structure, matching it to a job) changes the candidate
\* sequences of the Resume Record the session holds.
C23_OriginalCandidatesSurvive ==
    [][Candidates(resume_data') = Candidates(resume_data)]_vars

Range(xs) == {xs[i] : i \in 1..Len(xs)}

\* Each element is a str and one of the candidates.
SelectedFrom(selected, candidates) ==
    \A n \in 1..Len(selected) :
        selected[n].type = "str" /\ selected[n].value \in Range(candidates)

\* C30: whatever the language-model service replied, every string in the
\* accomplishments, role_summaries and descriptions that match_resume_to_job
\* returned is one of the candidates of the input entry, and those fields
\* are sequences of strings.
C30_MatchingOnlySelects ==
    tailorings > 0 =>
        /\ \A i \in 1..Len(Get(selected_content, "experience", << >>)) :
            /\ SelectedFrom(selected_content.experience[i].role_summaries,
                            Get(enhanced_data.experience[i], "role_summaries", << >>))
            /\ Range(selected_content.experience[i].accomplishments)
                  \subseteq Range(Get(enhanced_data.experience[i], "accomplishments", << >>))
        /\ \A i \in 1..Len(Get(selected_content, "projects", << >>)) :
            SelectedFrom(selected_content.projects[i].descriptions,
                         Get(enhanced_data.projects[i], "descriptions", << >>))

-----------------------------------------------------------------------------
(* Further claims about the CV-renderer dates *)

\* t is read by one of the grammars tried before the year-range rule: a bare
\* 4-digit year, YYYY-MM, YYYY-MM-DD, or a month name and a 4-digit year.
OtherGrammarMatches(t) ==
    \/ FourDigits(t) \/ YearMonthForm(t) \/ YearMonthDayForm(t)
    \/ LET tokens == SplitWS(Lower(t))
       IN Len(tokens) >= 2 /\ FourDigits(tokens[2]) /\ tokens[1] \in DOMAIN month_mapping

\* The year of a range: the 4 digits before the first dash, '20' and the
\* 2 digits before it, and nothing for any other prefix.
RangeYear(t) ==
    IF FourDigits(BeforeFirstDash(t)) THEN BeforeFirstDash(t)
    ELSE IF TwoDigitString(BeforeFirstDash(t)) THEN <<"2", "0">> \o BeforeFirstDash(t)
    ELSE << >>

\* C24: when no other grammar matches and the input contains a dash, the
\* normalizer returns the year taken from the part before the first dash
\* (4 digits as they are, 2 digits NN as '20NN', anything else as the empty
\* string); in particular '20-21' and '2020-21' both normalize to '2020'.
C24_YearRanges ==
    parsed.op = "_normalize_date" =>
        LET t == Strip(date_input)
        IN /\ (~OtherGrammarMatches(t) /\ \E i \in 1..Len(t) : t[i] = "-")
                  => parsed.value = RangeYear(t)
           /\ t = <<"2", "0", "-", "2", "1">> => parsed.value = <<"2", "0", "2", "0">>
           /\ t = <<"2", "0", "2", "0", "-", "2", "1">> => parsed.value = <<"2", "0", "2", "0">>

-----------------------------------------------------------------------------
(* Escaped text inside a string literal *)

\* The number of consecutive backslashes that end right before position i of s.
BackslashesBefore(s, i) ==
    Cardinality({k \in 1..(i - 1) : \A j \in k..(i - 1) : s[j] = BS})

\* C25: every double quote in the escaped text is immediately preceded by an
\* odd number of consecutive backslashes, so it does not close the string
\* literal the text is embedded in.
C25_EscapedQuoteStaysInLiteral ==
    esc_pc # "start" =>
        \A i \in 1..Len(escaped) :
            escaped[i] = DQ => BackslashesBefore(escaped, i) % 2 = 1

-----------------------------------------------------------------------------
(* Output grammar of the CV-renderer dates *)

\* s is empty or has the form YYYY, YYYY-MM or YYYY-MM-DD.
RenderCVDateForm(s) ==
    s = << >> \/ FourDigits(s) \/ YearMonthForm(s) \/ YearMonthDayForm(s)

\* C26: the start date the duration parser returns is empty or of the form
\* YYYY, YYYY-MM or YYYY-MM-DD, and the end date is empty, 'present' or of
\* one of those forms.
C26_DurationOutputGrammar ==
    parsed.op = "_parse_duration" =>
        /\ RenderCVDateForm(parsed.start_date)
        /\ parsed.end_date = <<"p", "r", "e", "s", "e", "n", "t">> \/ RenderCVDateForm(parsed.end_date)

\* A duration has been parsed to a year-month start and an open end.
C26_Witness ==
    /\ parsed.op = "_parse_duration"
    /\ YearMonthForm(parsed.start_date)
    /\ parsed.end_date = <<"p", "r", "e", "s", "e", "n", "t">>

-----------------------------------------------------------------------------
(* Further claims about the render invocation adapters *)

\* C27: the bytes a RenderCV render returns are the PDF its own renderer
\* invocation produced from its own document, never a PDF an earlier call
\* left in the working directory.
C27_RenderCVReturnsOwnOutput ==
    \A c \in Renders :
        pc[c] = "done" /\ call[c].engine = "rendercv" /\ result[c].status = "ok" =>
            outcome[c] = "ok" /\ result[c].bytes = Rendered(Document(c), "pdf")

\* The default of the theme argument of JSONResumeRenderer.render_to_pdf
\* and render_to_html.
DefaultJsonTheme == "professional"

\* C28: a JSON Resume render asked for a theme ThemeExporter lists for that
\* engine, or for the renderer's default theme, is never rejected with the
\* 'theme not available' error.
C28_AdvertisedThemesRenderable ==
    \A c \in Renders :
        /\ call[c].engine = "json_resume"
        /\ call[c].theme \in ExporterJsonThemes \cup {DefaultJsonTheme}
        /\ pc[c] \in {"except", "done"}
        => ~(result[c].status \in {"caught", "error"}
               /\ result[c].message = "theme not available")

\* C29: a JSON Resume export asked for HTML that has ended has returned HTML
\* the JSON Resume renderer produced, or has ended in an error; it has not
\* returned a PDF.
C29_HtmlExportReturnsHtml ==
    \A c \in Renders :
        pc[c] = "done" /\ call[c].engine = "json_resume" /\ call[c].output_format = "html" =>
            \/ result[c].status = "error"
            \/ /\ result[c].status = "ok"
               /\ result[c].backend = "json_resume"
               /\ result[c].bytes.kind = "html"

====
